---- MODULE Spec2Model ----
(***************************************************************************)
(* A model of the plate-loading core of PyRT-CETSA (src/pyrt_cetsa.py):    *)
(* well identifiers, the plate-map resolver, the long-form loader and the  *)
(* auto-detecting matrix loader; and of the NPARC engine with its BH-FDR   *)
(* correction (src/test_nparc.py).  Texts are sequences of one-character   *)
(* strings; a spreadsheet cell is a record [k, v].                         *)
(***************************************************************************)
EXTENDS Integers, Sequences, FiniteSets, TLC

VARIABLES wi_call, wi_enc, wi_norm, wi_pc,   \* well identity
          df, la_t, la_res,                   \* load_plate_matrix_auto
          lf, lo_t, lo_res,                   \* load_plate_long
          matrix_sheet,                       \* load_plate_auto: a matrix sheet is named
          book, pm_res,                       \* load_platemap_384
          nparc_in, nparc_call, nparc_res,    \* run_nparc_external, main
          bh_in, bh_res,                      \* the BH-FDR block
          mw_in, mw_res                       \* the condition-level test

wi_vars == <<wi_call, wi_enc, wi_norm, wi_pc>>
la_vars == <<df, la_t, la_res>>
lo_vars == <<lf, lo_t, lo_res>>
pm_vars == <<book, pm_res>>
np_vars == <<nparc_in, nparc_call, nparc_res>>
bh_vars == <<bh_in, bh_res>>
mw_vars == <<mw_in, mw_res>>

vars == <<wi_call, wi_enc, wi_norm, wi_pc, df, la_t, la_res, lf, lo_t, lo_res,
         matrix_sheet, book, pm_res, nparc_in, nparc_call, nparc_res,
         bh_in, bh_res, mw_in, mw_res>>

(***************************************************************************)
(* Bounds of the model.                                                    *)
(***************************************************************************)
\* longest text handed to normalize_well_id
MaxTextLen == 4
\* how far outside 1..16 x 1..24 the coordinates handed to
\* well_id_from_rowcol range
CoordSlack == 2
\* most measurement rows below the header of a generated sheet
MaxPoints == 3
\* largest column offset of the header of a generated sheet
MaxStart == 2
\* most well rows of a generated long-form table
MaxLongRows == 2
\* most rows of a generated annotation grid (the full 16 x 24 grid aside)
MaxGridRows == 2

(***************************************************************************)
(* Texts.                                                                  *)
(***************************************************************************)
UpperLetters ==
  <<"A","B","C","D","E","F","G","H","I","J","K","L","M",
    "N","O","P","Q","R","S","T","U","V","W","X","Y","Z">>

LowerLetters ==
  <<"a","b","c","d","e","f","g","h","i","j","k","l","m",
    "n","o","p","q","r","s","t","u","v","w","x","y","z">>

DigitChars == <<"0","1","2","3","4","5","6","7","8","9">>

Range(s) == {s[i] : i \in DOMAIN s}

IsSpace(ch) == ch \in {" ", "\t", "\n"}

\* str.upper() on one character
UpperChar(ch) ==
  IF ch \in Range(LowerLetters)
  THEN UpperLetters[CHOOSE i \in DOMAIN LowerLetters : LowerLetters[i] = ch]
  ELSE ch

\* str.upper()
StrUpper(x) == [i \in DOMAIN x |-> UpperChar(x[i])]

\* str.strip(): drops leading and trailing whitespace
StrStrip(x) ==
  LET keep == {i \in DOMAIN x : ~IsSpace(x[i])}
  IN IF keep = {} THEN <<>>
     ELSE LET lo == CHOOSE i \in keep : \A j \in keep : i <= j
              hi == CHOOSE i \in keep : \A j \in keep : j <= i
          IN SubSeq(x, lo, hi)

DigitVal(ch) == (CHOOSE i \in DOMAIN DigitChars : DigitChars[i] = ch) - 1

\* int("...") of a text made of decimal digits
RECURSIVE IntOfDigits(_)
IntOfDigits(ds) ==
  IF ds = <<>> THEN 0
  ELSE 10 * IntOfDigits(SubSeq(ds, 1, Len(ds) - 1)) + DigitVal(ds[Len(ds)])

\* f"{n}" of an integer
RECURSIVE StrOfInt(_)
StrOfInt(n) ==
  IF n < 0 THEN <<"-">> \o StrOfInt(-n)
  ELSE IF n < 10 THEN <<DigitChars[n + 1]>>
  ELSE StrOfInt(n \div 10) \o <<DigitChars[(n % 10) + 1]>>

(***************************************************************************)
(* Well identity.                                                          *)
(***************************************************************************)
NROWS == 16
NCOLS == 24

\* list(string.ascii_uppercase)[:16]
RowLetters == SubSeq(UpperLetters, 1, NROWS)

\* seq[idx] as Python evaluates it: 0-based, a negative index counts from
\* the end, anything else is an IndexError
PyIndex(seq, idx) ==
  IF idx >= 0 /\ idx < Len(seq) THEN [status |-> "ok", value |-> seq[idx + 1]]
  ELSE IF idx < 0 /\ idx >= -Len(seq)
       THEN [status |-> "ok", value |-> seq[Len(seq) + idx + 1]]
  ELSE [status |-> "IndexError", value |-> ""]

all_well_ids_384 ==
  [i \in 1..(NROWS * NCOLS) |->
     <<RowLetters[((i - 1) \div NCOLS) + 1]>> \o StrOfInt(((i - 1) % NCOLS) + 1)]

WellUniverse == Range(all_well_ids_384)

\* a plausible slip: the column number written zero-padded to two digits
well_id_from_rowcol_padded(row_no, col_no) ==
  LET l == PyIndex(RowLetters, row_no - 1)
  IN IF l.status = "ok"
     THEN [status |-> "ok",
           value |-> <<l.value>> \o
                     (IF col_no >= 0 /\ col_no < 10 THEN <<"0">> ELSE <<>>) \o
                     StrOfInt(col_no)]
     ELSE [status |-> l.status, value |-> <<>>]

well_id_from_rowcol(row_no, col_no) ==
  LET l == PyIndex(RowLetters, row_no - 1)
  IN IF l.status = "ok"
     THEN [status |-> "ok", value |-> <<l.value>> \o StrOfInt(col_no)]
     ELSE [status |-> l.status, value |-> <<>>]

\* the texts ([1-9]|1[0-9]|2[0-4]) matches
ColumnTokens ==
  {<<d>> : d \in Range(SubSeq(DigitChars, 2, 10))}
  \cup {<<"1", d>> : d \in Range(DigitChars)}
  \cup {<<"2", d>> : d \in Range(SubSeq(DigitChars, 1, 5))}

\* re.match(r"^([A-P])0*([1-9]|1[0-9]|2[0-4])$", x): the two groups, or no
\* match.  The column group never starts with "0", so the split is unique.
WellIdMatch(x) ==
  IF Len(x) < 2 \/ x[1] \notin Range(RowLetters)
  THEN [matched |-> FALSE, g1 |-> "", g2 |-> <<>>]
  ELSE LET nz == {i \in 2..Len(x) : x[i] # "0"}
       IN IF nz = {} THEN [matched |-> FALSE, g1 |-> "", g2 |-> <<>>]
          ELSE LET first == CHOOSE i \in nz : \A j \in nz : i <= j
                   tok == SubSeq(x, first, Len(x))
               IN IF tok \in ColumnTokens
                  THEN [matched |-> TRUE, g1 |-> x[1], g2 |-> tok]
                  ELSE [matched |-> FALSE, g1 |-> "", g2 |-> <<>>]

\* a plausible slip: the match is made on the cleaned text but the text
\* handed in is what falls through
normalize_well_id_raw_fallthrough(x) ==
  LET y == StrUpper(StrStrip(x))
      m == WellIdMatch(y)
  IN IF m.matched THEN <<m.g1>> \o StrOfInt(IntOfDigits(m.g2)) ELSE x

\* a plausible slip: the zero padding is kept
normalize_well_id_keep_zeros(x) ==
  LET y == StrUpper(StrStrip(x))
      m == WellIdMatch(y)
  IN y

normalize_well_id(x) ==
  LET y == StrUpper(StrStrip(x))
      m == WellIdMatch(y)
  IN IF m.matched THEN <<m.g1>> \o StrOfInt(IntOfDigits(m.g2)) ELSE y

(***************************************************************************)
(* Spreadsheet cells and numbers.                                          *)
(* A cell is [k, v]: k = "int" an integer v, "numstr" a text that reads as *)
(* the integer v, "frac" a number that is no integer (v its tenths),       *)
(* "text" any other text, "blank" an empty cell (NaN).                     *)
(***************************************************************************)
IntCell(v) == [k |-> "int", v |-> v]
NumStrCell(v) == [k |-> "numstr", v |-> v]
FracCell(v) == [k |-> "frac", v |-> v]
TextCell == [k |-> "text", v |-> 0]
\* a plausible slip: absent wells are filled with 0
ZeroCell == IntCell(0)

\* np.nan, the missing marker
NaN == [k |-> "blank", v |-> 0]

Min(a, b) == IF a <= b THEN a ELSE b
Max(a, b) == IF a >= b THEN a ELSE b
\* the sequence f with its elements evaluated once
Evaluated(f) == SubSeq(f, 1, Len(f))
SeqMin(f) == CHOOSE m \in Range(f) : \A x \in Range(f) : m <= x

\* pd.to_numeric(cell, errors="coerce"): "int" v, "frac" v or "nan"
ToNumeric(c) ==
  CASE c.k \in {"int", "numstr"} -> [k |-> "int", v |-> c.v]
    [] c.k = "frac" -> [k |-> "frac", v |-> c.v]
    [] OTHER -> [k |-> "nan", v |-> 0]

\* df.shape and df.iloc with 0-based positions
NRowsOf(d) == Len(d.rows)
NColsOf(d) == d.ncols
RowSlice(d, r, start, end) == SubSeq(d.rows[r + 1], start + 1, end)

\* np.linspace(t_min, t_max, n_points) in exact arithmetic: the i-th value
\* is num/den
build_uniform_temperature_grid(n_points, t_min_c, t_max_c) ==
  IF n_points <= 0 THEN <<>>
  ELSE IF n_points = 1 THEN <<[num |-> t_min_c, den |-> 1]>>
  ELSE [i \in 1..n_points |->
          [num |-> t_min_c * (n_points - 1) + (i - 1) * (t_max_c - t_min_c),
           den |-> n_points - 1]]

(***************************************************************************)
(* Layout auto-detection.                                                  *)
(***************************************************************************)
WINDOW == 384
THRESHOLD == 300
SEARCH_MAX_START == 20

RowPairs == <<<<0, 1>>, <<1, 2>>, <<2, 3>>, <<3, 4>>>>

\* _score_header_pair: the cast to Int64 raises on a number that is no
\* integer, and the score is then -1
ScoreHeaderPair(row_hdr, col_hdr) ==
  LET rv == Evaluated([i \in DOMAIN row_hdr |-> ToNumeric(row_hdr[i])])
      cv == Evaluated([i \in DOMAIN col_hdr |-> ToNumeric(col_hdr[i])])
  IN IF \E i \in DOMAIN rv : rv[i].k = "frac" \/ cv[i].k = "frac" THEN -1
     ELSE Cardinality({i \in DOMAIN rv :
            /\ rv[i].k = "int" /\ rv[i].v >= 1 /\ rv[i].v <= NROWS
            /\ cv[i].k = "int" /\ cv[i].v >= 1 /\ cv[i].v <= NCOLS})

NoBest == [found |-> FALSE, r1 |-> 0, r2 |-> 0, start |-> 0, end |-> 0, score |-> -1]

\* a plausible slip: the search bound is not applied
WindowStartsUnbounded(ncols, search_max_start) ==
  {st \in 0..Max(1, ncols - WINDOW) : st + WINDOW <= ncols}

\* the start columns the inner loop reaches before its break
WindowStarts(ncols, search_max_start) ==
  {st \in 0..Min(search_max_start, Max(1, ncols - WINDOW)) : st + WINDOW <= ncols}

\* the candidate windows in the order the two loops visit them
Windows(ncols, search_max_start) ==
  LET n == Cardinality(WindowStarts(ncols, search_max_start))
  IN [w \in 1..(Len(RowPairs) * n) |->
        [r1 |-> RowPairs[((w - 1) \div n) + 1][1],
         r2 |-> RowPairs[((w - 1) \div n) + 1][2],
         start |-> (w - 1) % n]]

\* a plausible slip: a window of equal score replaces the best
BetterOrEqual(score, best) == score >= (IF best.found THEN best.score ELSE -1)

\* score > (best[4] if best else -1)
Better(score, best) == score > (IF best.found THEN best.score ELSE -1)

\* the scan of the candidate windows from the w-th on; reading a header row
\* the sheet does not have is an IndexError
RECURSIVE ScanWindows(_, _, _, _)
ScanWindows(d, wins, w, best) ==
  IF w > Len(wins) THEN [status |-> "ok", best |-> best]
  ELSE LET win == wins[w]
       IN IF win.r1 >= NRowsOf(d) \/ win.r2 >= NRowsOf(d)
          THEN [status |-> "IndexError", best |-> best]
          ELSE LET end == win.start + WINDOW
                   score == ScoreHeaderPair(RowSlice(d, win.r1, win.start, end),
                                            RowSlice(d, win.r2, win.start, end))
               IN ScanWindows(d, wins, w + 1,
                    IF Better(score, best)
                    THEN [found |-> TRUE, r1 |-> win.r1, r2 |-> win.r2,
                          start |-> win.start, end |-> end, score |-> score]
                    ELSE best)

WellIndex == [w \in WellUniverse |-> CHOOSE p \in DOMAIN all_well_ids_384 : all_well_ids_384[p] = w]

\* what a loader hands back: status "ok" with the matrix (its temperature
\* index, its column labels and its rows of cells) and the debug record, or
\* the exception raised and the source line that raised it
LaResult(status, at, best, temps, columns, data) ==
  [status |-> status, at |-> at, dbg |-> best, temps |-> temps,
   columns |-> columns, data |-> data]

Raised(status, at, best) == LaResult(status, at, best, <<>>, <<>>, <<>>)

NoLaResult == Raised("none", 0, NoBest)

\* lines 157-179: the extraction of the accepted window
ExtractWindow(d, best, t_min_c, t_max_c) ==
  LET rn0 == Evaluated([i \in 1..WINDOW |-> ToNumeric(d.rows[best.r1 + 1][best.start + i])])
      cn0 == Evaluated([i \in 1..WINDOW |-> ToNumeric(d.rows[best.r2 + 1][best.start + i])])
  IN IF \E i \in 1..WINDOW : rn0[i].k # "int" \/ cn0[i].k # "int"
     THEN Raised("IntCastError", 159, best)
     ELSE
     LET shift == IF SeqMin([i \in 1..WINDOW |-> rn0[i].v]) = 0
                     \/ SeqMin([i \in 1..WINDOW |-> cn0[i].v]) = 0
                  THEN 1 ELSE 0
         letters == Evaluated([i \in 1..WINDOW |->
                                 PyIndex(UpperLetters, rn0[i].v + shift - 1)])
     IN IF \E i \in 1..WINDOW : letters[i].status # "ok"
        THEN Raised("IndexError", 167, best)
        ELSE
        LET well_ids == Evaluated([i \in 1..WINDOW |->
                           normalize_well_id(<<letters[i].value>> \o StrOfInt(cn0[i].v + shift))])
            idx == Evaluated([i \in 1..WINDOW |->
                      IF well_ids[i] \in WellUniverse THEN WellIndex[well_ids[i]] ELSE 0])
            n_points == NRowsOf(d) - (best.r2 + 1)
            temps_c == build_uniform_temperature_grid(n_points, t_min_c, t_max_c)
        IN IF Cardinality(Range(well_ids)) < WINDOW
           THEN Raised("ReindexError", 178, best)
           ELSE LET src == Evaluated([p \in 1..(NROWS * NCOLS) |->
                                        {i \in 1..WINDOW : idx[i] = p}])
                IN LaResult("ok", 179, best, temps_c, all_well_ids_384,
                     [t \in 1..n_points |->
                        [p \in 1..(NROWS * NCOLS) |->
                           IF src[p] = {} THEN NaN
                           ELSE d.rows[best.r2 + 1 + t]
                                      [best.start + (CHOOSE i \in src[p] : TRUE)]]])

load_plate_matrix_auto(d, t_min_c, t_max_c, search_max_start) ==
  LET scan == ScanWindows(d, Windows(NColsOf(d), search_max_start), 1, NoBest)
  IN IF scan.status # "ok" THEN Raised(scan.status, 150, scan.best)
     ELSE IF ~scan.best.found \/ scan.best.score < THRESHOLD
          THEN Raised("LayoutNotDetected", 156, scan.best)
          ELSE ExtractWindow(d, scan.best, t_min_c, t_max_c)

(***************************************************************************)
(* Inputs of the well-identity operations.                                 *)
(***************************************************************************)
TextAlphabet == {"a", "A", "Q", "0", "1", "2", "5", " "}

RECURSIVE TextsOfLen(_)
TextsOfLen(n) ==
  IF n = 0 THEN {<<>>}
  ELSE {Append(t, ch) : t \in TextsOfLen(n - 1), ch \in TextAlphabet}

Texts == UNION {TextsOfLen(n) : n \in 0..MaxTextLen}

CoordRows == (1 - CoordSlack - NROWS)..(NROWS + CoordSlack)
CoordCols == (0 - CoordSlack)..(NCOLS + CoordSlack)

NoResult == [status |-> "none", value |-> <<>>]

EncodeCall(row, col) == [fn |-> "encode", row |-> row, col |-> col, text |-> <<>>]
NormalizeCall(text) == [fn |-> "normalize", row |-> 0, col |-> 0, text |-> text]

WellInit ==
  /\ wi_call \in {EncodeCall(r, c) : r \in CoordRows, c \in CoordCols}
                 \cup {NormalizeCall(t) : t \in Texts}
  /\ wi_enc = NoResult
  /\ wi_norm = NoResult
  /\ wi_pc = "start"

\* well_id_from_rowcol(row, col)
Encode ==
  /\ wi_pc = "start"
  /\ wi_call.fn = "encode"
  /\ wi_enc' = well_id_from_rowcol(wi_call.row, wi_call.col)
  /\ wi_pc' = "encoded"
  /\ UNCHANGED <<wi_call, wi_norm, la_vars, lo_vars, matrix_sheet, pm_vars, np_vars, bh_vars, mw_vars>>

\* normalize_well_id(well_id_from_rowcol(row, col)), as load_plate_long does
NormalizeEncoded ==
  /\ wi_pc = "encoded"
  /\ wi_enc.status = "ok"
  /\ wi_norm' = [status |-> "ok", value |-> normalize_well_id(wi_enc.value)]
  /\ wi_pc' = "done"
  /\ UNCHANGED <<wi_call, wi_enc, la_vars, lo_vars, matrix_sheet, pm_vars, np_vars, bh_vars, mw_vars>>

\* normalize_well_id(text)
Normalize ==
  /\ wi_pc = "start"
  /\ wi_call.fn = "normalize"
  /\ wi_norm' = [status |-> "ok", value |-> normalize_well_id(wi_call.text)]
  /\ wi_pc' = "done"
  /\ UNCHANGED <<wi_call, wi_enc, la_vars, lo_vars, matrix_sheet, pm_vars, np_vars, bh_vars, mw_vars>>

WellNext == Encode \/ NormalizeEncoded \/ Normalize


(***************************************************************************)
(* The long-form loader.                                                   *)
(***************************************************************************)
\* int(x) of a number: truncation toward zero
IntOfNumber(n) ==
  IF n.k = "int" THEN n.v
  ELSE IF n.v >= 0 THEN n.v \div 10 ELSE -((-n.v) \div 10)

\* the number in tenths, to compare integers with other numbers
Tenths(n) == IF n.k = "int" THEN 10 * n.v ELSE n.v

\* Series.min() == 0: the smallest number, blanks skipped, is zero
MinIsZero(ns) ==
  /\ \E i \in DOMAIN ns : ns[i].k # "nan" /\ Tenths(ns[i]) = 0
  /\ \A i \in DOMAIN ns : ns[i].k # "nan" => Tenths(ns[i]) >= 0

\* r + 1
PlusOne(n) ==
  CASE n.k = "int" -> [k |-> "int", v |-> n.v + 1]
    [] n.k = "frac" -> [k |-> "frac", v |-> n.v + 10]
    [] OTHER -> n

\* Series.between(lo, hi)
Between(n, lo, hi) == n.k # "nan" /\ Tenths(n) >= 10 * lo /\ Tenths(n) <= 10 * hi

\* the cell a coerced number is stored as
CellOfNumber(n) ==
  CASE n.k = "int" -> IntCell(n.v)
    [] n.k = "frac" -> FracCell(n.v)
    [] OTHER -> NaN

\* the guard of line 118
EnoughPoints(n_points) == n_points >= 2

load_plate_long(d, t_min_c, t_max_c) ==
  IF NColsOf(d) < 3 THEN Raised("ValueError", 101, NoBest)
  ELSE
  LET n == NRowsOf(d)
      r0 == Evaluated([i \in 1..n |-> ToNumeric(d.rows[i][1])])
      c0 == Evaluated([i \in 1..n |-> ToNumeric(d.rows[i][2])])
      zero == MinIsZero(r0) \/ MinIsZero(c0)
      r == Evaluated([i \in 1..n |-> IF zero THEN PlusOne(r0[i]) ELSE r0[i]])
      c == Evaluated([i \in 1..n |-> IF zero THEN PlusOne(c0[i]) ELSE c0[i]])
      valid == {i \in 1..n : Between(r[i], 1, NROWS) /\ Between(c[i], 1, NCOLS)}
      n_points == NColsOf(d) - 2
  IN IF ~EnoughPoints(n_points) THEN Raised("ValueError", 119, NoBest)
     ELSE
     LET temp_grid_c == build_uniform_temperature_grid(n_points, t_min_c, t_max_c)
         id == [i \in valid |->
                  well_id_from_rowcol(IntOfNumber(r[i]), IntOfNumber(c[i]))]
     IN IF \E i \in valid : id[i].status # "ok"
        THEN Raised("IndexError", 121, NoBest)
        ELSE IF \E i \in valid, j \in valid :
                  i # j /\ normalize_well_id(id[i].value) = normalize_well_id(id[j].value)
        THEN Raised("ReindexError", 128, NoBest)
        ELSE LET src == [p \in 1..(NROWS * NCOLS) |->
                           {i \in valid :
                              normalize_well_id(id[i].value) = all_well_ids_384[p]}]
             IN LaResult("ok", 128, NoBest, temp_grid_c, all_well_ids_384,
                  [t \in 1..n_points |->
                     [p \in 1..(NROWS * NCOLS) |->
                        IF src[p] = {} THEN NaN
                        ELSE CellOfNumber(ToNumeric(
                               d.rows[CHOOSE i \in src[p] : TRUE][2 + t]))]])

(***************************************************************************)
(* The plate map.  An annotation grid is [labels, rows]: the labels of the *)
(* columns after the row-number column, and per row its row-number cell    *)
(* and its value cells.  A workbook is a sequence of sheets; of a sheet's  *)
(* name only what the two regular expressions make of it is kept.          *)
(***************************************************************************)
Label(v) == [k |-> "text", v |-> v]

\* int(x) of a cell: a blank or a text that is no integer raises
IntOfCell(c) ==
  IF c.k \in {"int", "numstr", "frac"}
  THEN [status |-> "ok", value |-> IntOfNumber(ToNumeric(c))]
  ELSE [status |-> "ValueError", value |-> 0]

\* int(str(col).strip()) of a column label: only integers and texts that
\* read as integers pass
IntOfLabel(c) ==
  IF c.k \in {"int", "numstr"}
  THEN [status |-> "ok", value |-> c.v]
  ELSE [status |-> "ValueError", value |-> 0]

\* the entries one grid row adds: an ID and a value per integer column label
GridRowEntries(grid, i, row_letter) ==
  LET js == {j \in DOMAIN grid.labels : IntOfLabel(grid.labels[j]).status = "ok"}
      RECURSIVE From(_)
      From(j) ==
        IF j > Len(grid.labels) THEN <<>>
        ELSE (IF j \in js
              THEN <<[ID |-> normalize_well_id(
                               <<row_letter>> \o StrOfInt(IntOfLabel(grid.labels[j]).value)),
                      value |-> grid.rows[i].vals[j]]>>
              ELSE <<>>) \o From(j + 1)
  IN From(1)

\* _grid_to_series: the (ID, value) entries in row order, or the exception
RECURSIVE GridEntriesFrom(_, _)
GridEntriesFrom(grid, i) ==
  IF i > Len(grid.rows) THEN [status |-> "ok", at |-> 0, entries |-> <<>>]
  ELSE LET row_no == IntOfCell(grid.rows[i].no)
       IN IF row_no.status # "ok"
          THEN [status |-> "ValueError", at |-> 55, entries |-> <<>>]
          ELSE LET row_letter == PyIndex(UpperLetters, row_no.value - 1)
               IN IF row_letter.status # "ok"
                  THEN [status |-> "IndexError", at |-> 56, entries |-> <<>>]
                  ELSE LET rest == GridEntriesFrom(grid, i + 1)
                       IN IF rest.status # "ok" THEN rest
                          ELSE [status |-> "ok", at |-> 0,
                                entries |-> GridRowEntries(grid, i, row_letter.value)
                                              \o rest.entries]

grid_to_series(grid) ==
  LET got == GridEntriesFrom(grid, 1)
  IN IF got.status = "ok" /\ got.entries = <<>>
     THEN [status |-> "KeyError", at |-> 64, entries |-> <<>>]
     ELSE got

\* the sheet picked for the conditions: the first whose name matches
\* (sample|id|map|layout), else the first sheet
SampleSheet(sheets) ==
  LET cand == {i \in DOMAIN sheets : sheets[i].sample}
  IN IF cand # {} THEN CHOOSE i \in cand : \A j \in cand : i <= j ELSE 1

\* the sheet picked for the concentrations: the first whose name matches
\* (conc|concentration), else none (0)
ConcSheet(sheets) ==
  LET cand == {i \in DOMAIN sheets : sheets[i].conc}
  IN IF cand # {} THEN CHOOSE i \in cand : \A j \in cand : i <= j ELSE 0

IdsOf(entries) == {entries[i].ID : i \in DOMAIN entries}
HasDuplicateIds(entries) == Cardinality(IdsOf(entries)) < Len(entries)
ValueOf(entries, id) ==
  IF \E i \in DOMAIN entries : entries[i].ID = id
  THEN entries[CHOOSE i \in DOMAIN entries : entries[i].ID = id].value
  ELSE NaN

\* a plausible slip: a left join, which keeps only the wells of the
\* condition grid
JoinedIdsLeft(sample_ser, conc_ser) == IdsOf(sample_ser)

\* the index of sample_ser.join(conc_ser, how="outer")
JoinedIds(sample_ser, conc_ser) == IdsOf(sample_ser) \cup IdsOf(conc_ser)

PmResult(status, at, map) == [status |-> status, at |-> at, map |-> map]

NoPmResult == PmResult("none", 0, <<>>)

\* pm.reindex(all_well_ids_384()) of the joined frame
ReindexPlatemap(ids, sample_ser, conc_ser, dup) ==
  IF dup THEN PmResult("ReindexError", 90, <<>>)
  ELSE PmResult("ok", 91,
         [w \in WellUniverse |->
            IF w \in ids
            THEN [Condition |-> ValueOf(sample_ser, w),
                  Concentration |-> ValueOf(conc_ser, w)]
            ELSE [Condition |-> NaN, Concentration |-> NaN]])

load_platemap_384(sheets) ==
  LET sample_ser == grid_to_series(sheets[SampleSheet(sheets)].grid)
  IN IF sample_ser.status # "ok"
     THEN PmResult(sample_ser.status, sample_ser.at, <<>>)
     ELSE IF ConcSheet(sheets) # 0
     THEN LET conc_ser == grid_to_series(sheets[ConcSheet(sheets)].grid)
          IN IF conc_ser.status # "ok"
             THEN PmResult(conc_ser.status, conc_ser.at, <<>>)
             ELSE ReindexPlatemap(JoinedIds(sample_ser.entries, conc_ser.entries),
                                  sample_ser.entries, conc_ser.entries,
                                  HasDuplicateIds(sample_ser.entries)
                                    \/ HasDuplicateIds(conc_ser.entries))
     ELSE ReindexPlatemap(IdsOf(sample_ser.entries), sample_ser.entries, <<>>,
                          HasDuplicateIds(sample_ser.entries))

(***************************************************************************)
(* Sheets handed to load_plate_matrix_auto.  A sheet is described by       *)
(*   npts   the number of rows below the header pair,                      *)
(*   hr     the row of the row-number header (the column-number header is  *)
(*          the next row),                                                 *)
(*   st     the column of the first header cell,                           *)
(*   extra  the number of columns right of the header,                     *)
(*   noise  what the cells outside the header hold,                        *)
(*   defect, nbad  what is wrong with the first nbad header positions,     *)
(*   twin   a second window of the same score: the header pair repeated in *)
(*          the two rows below it ("rows"), or one more valid header       *)
(*          position right of it ("start"),                                *)
(*   cut    the number of columns missing at the right end.                *)
(***************************************************************************)
Noises == {"big", "frac"}
Defects == {"blank", "text", "range", "dup", "numstr", "zero", "far", "stray"}
Twins == {"rows", "start"}

\* a cell outside the header: a value that tells where it came from
NoiseCell(g, i, j) ==
  IF g.noise = "frac" THEN FracCell(10 * (1000 + 500 * i + j) + 5)
  ELSE IntCell(1000 + 500 * i + j)

\* the header cells at the k-th position (k from 0) of a perfect 1-based
\* 16 x 24 header pair, and what the defects make of them
RowHeaderCell(g, k) ==
  LET row == (k \div NCOLS) + 1
  IN IF g.defect = "zero" THEN IntCell(row - 1)
     ELSE IF k >= g.nbad THEN IntCell(row)
     ELSE CASE g.defect = "blank" -> NaN
            [] g.defect = "stray" -> IntCell(0)
            [] g.defect = "text" -> TextCell
            [] g.defect = "numstr" -> NumStrCell(row)
            [] g.defect = "far" -> IntCell(row + 26)
            [] g.defect = "dup" -> IntCell(NROWS)
            [] OTHER -> IntCell(row)

ColHeaderCell(g, k) ==
  LET col == (k % NCOLS) + 1
  IN IF g.defect = "zero" THEN IntCell(col - 1)
     ELSE IF k >= g.nbad THEN IntCell(col)
     ELSE CASE g.defect = "range" -> IntCell(col + NCOLS)
            [] g.defect = "numstr" -> NumStrCell(col)
            [] g.defect = "dup" -> IntCell(NCOLS)
            [] OTHER -> IntCell(col)

SheetCell(g, i, j) ==
  LET inwin == j >= g.st /\ j < g.st + WINDOW
      below == g.twin = "rows" /\ inwin
      right == g.twin = "start" /\ j = g.st + WINDOW
  IN IF i = g.hr /\ inwin THEN RowHeaderCell(g, j - g.st)
     ELSE IF i = g.hr + 1 /\ inwin THEN ColHeaderCell(g, j - g.st)
     ELSE IF i = g.hr + 2 /\ below THEN RowHeaderCell(g, j - g.st)
     ELSE IF i = g.hr + 3 /\ below THEN ColHeaderCell(g, j - g.st)
     ELSE IF i = g.hr /\ right THEN IntCell(NROWS)
     ELSE IF i = g.hr + 1 /\ right THEN IntCell(1)
     ELSE NoiseCell(g, i, j)

SheetOf(g) ==
  LET ncols == g.st + WINDOW + g.extra - g.cut
  IN [ncols |-> ncols,
      rows |-> [i \in 1..(g.hr + 2 + g.npts) |->
                  [j \in 1..ncols |-> SheetCell(g, i - 1, j - 1)]]]

SheetDesc(npts, hr, st, extra, noise, defect, nbad) ==
  [npts |-> npts, hr |-> hr, st |-> st, extra |-> extra, noise |-> noise,
   defect |-> defect, nbad |-> nbad, twin |-> "none", cut |-> 0]

\* sheets with a perfect header pair
PerfectSheets ==
  {SheetDesc(npts, hr, st, extra, noise, "none", 0) :
     npts \in 0..MaxPoints, hr \in 0..3, st \in 0..MaxStart, extra \in 0..1,
     noise \in Noises}

\* sheets whose header pair has 1, 84 or 85 defective positions
DefectSheets ==
  {SheetDesc(npts, hr, st, 0, "big", defect, nbad) :
     npts \in {2, MaxPoints}, hr \in {0, 3}, st \in 0..1,
     defect \in Defects, nbad \in {1, WINDOW - THRESHOLD, WINDOW - THRESHOLD + 1}}

\* sheets with two windows of the same score
TwinSheets ==
  {[SheetDesc(MaxPoints, hr, st, 1, "big", defect, 1) EXCEPT !.twin = twin] :
     hr \in 0..1, st \in 0..1, defect \in {"none", "range"}, twin \in Twins}

\* sheets whose header pair lies at the edge of the search bounds or just
\* outside them
EdgeSheets ==
  {SheetDesc(npts, hr, st, 0, noise, "none", 0) :
     npts \in {1, MaxPoints}, hr \in 2..4,
     st \in (SEARCH_MAX_START - 1)..(SEARCH_MAX_START + 1), noise \in Noises}

\* sheets one column too narrow for a window
NarrowSheets ==
  {[SheetDesc(npts, hr, 0, 0, noise, "none", 0) EXCEPT !.cut = 1] :
     npts \in {0, MaxPoints}, hr \in {0, 3}, noise \in Noises}

Sheets ==
  {SheetOf(g) : g \in PerfectSheets \cup DefectSheets \cup TwinSheets
                     \cup EdgeSheets \cup NarrowSheets}

TempRanges == {<<37, 67>>, <<40, 40>>}

LayoutInit ==
  /\ df \in Sheets
  /\ la_t = <<0, 0>>
  /\ la_res = NoLaResult

(***************************************************************************)
(* Long-form tables handed to load_plate_long: one row per well, the row   *)
(* and column numbers in the first two columns.                            *)
(***************************************************************************)
LongCoords ==
  {<<IntCell(1), IntCell(1)>>, <<IntCell(16), IntCell(24)>>,
   <<IntCell(0), IntCell(0)>>, <<IntCell(17), IntCell(1)>>,
   <<NumStrCell(2), IntCell(3)>>, <<NaN, IntCell(1)>>}

RECURSIVE CoordLists(_)
CoordLists(n) ==
  IF n = 0 THEN {<<>>}
  ELSE {Append(l, rc) : l \in CoordLists(n - 1), rc \in LongCoords}

\* the table of ncols columns whose rows carry the coordinates of l
LongTableOf(l, ncols) ==
  [ncols |-> ncols,
   rows |-> [i \in DOMAIN l |->
               [j \in 1..ncols |->
                  IF j <= 2 THEN l[i][j] ELSE IntCell(1000 + 500 * i + j)]]]

LongTables ==
  {LongTableOf(l, ncols) :
     l \in UNION {CoordLists(n) : n \in 0..MaxLongRows},
     ncols \in 0..(2 + MaxPoints)}

LongInit ==
  /\ lf \in LongTables
  /\ lo_t = <<0, 0>>
  /\ lo_res = NoLaResult

LongIdle ==
  /\ lf = [ncols |-> 0, rows |-> <<>>]
  /\ lo_t = <<0, 0>>
  /\ lo_res = NoLaResult

\* load_plate_long(path, t_min_c, t_max_c)
LoadPlateLong ==
  /\ ~matrix_sheet
  /\ lo_res.status = "none"
  /\ \E t \in TempRanges :
       /\ lo_t' = t
       /\ lo_res' = load_plate_long(lf, t[1], t[2])
  /\ UNCHANGED <<lf, wi_vars, la_vars, matrix_sheet, pm_vars, np_vars, bh_vars, mw_vars>>

(***************************************************************************)
(* Workbooks handed to load_platemap_384.                                  *)
(***************************************************************************)
RowNoCells == {IntCell(1), IntCell(2), IntCell(17), NaN}

RECURSIVE RowNoLists(_, _)
RowNoLists(cells, n) ==
  IF n = 0 THEN {<<>>}
  ELSE {Append(l, c) : l \in RowNoLists(cells, n - 1), c \in cells}

LabelLists ==
  {<<IntCell(1), IntCell(2)>>,
   <<IntCell(2), Label(7), NumStrCell(24)>>,
   <<IntCell(1), NumStrCell(1), IntCell(25)>>}

\* the grid with these row numbers and column labels; the cell of row i and
\* column j holds a value that tells where it came from
GridOf(nos, labels, base) ==
  [labels |-> labels,
   rows |-> [i \in DOMAIN nos |->
               [no |-> nos[i],
                vals |-> [j \in DOMAIN labels |->
                            IF base = 0 THEN Label(100 * i + j)
                            ELSE IntCell(base + 100 * i + j)]]]]

FullGrid(base) ==
  GridOf([i \in 1..NROWS |-> IntCell(i)], [j \in 1..NCOLS |-> IntCell(j)], base)

ConditionGrids ==
  {GridOf(nos, labels, 0) :
     nos \in UNION {RowNoLists(RowNoCells, n) : n \in 0..MaxGridRows},
     labels \in LabelLists}
  \cup {FullGrid(0)}

ConcentrationGrids ==
  {GridOf(nos, labels, 5000) :
     nos \in UNION {RowNoLists({IntCell(1), IntCell(2)}, n) : n \in 1..MaxGridRows},
     labels \in LabelLists}
  \cup {FullGrid(5000)}

Sheet(sample, conc, grid) == [sample |-> sample, conc |-> conc, grid |-> grid]

Workbooks ==
  {<<Sheet(sample, conc, g)>> : sample \in BOOLEAN, conc \in BOOLEAN, g \in ConditionGrids}
  \cup {<<Sheet(TRUE, FALSE, g), Sheet(FALSE, TRUE, c)>> :
          g \in ConditionGrids, c \in ConcentrationGrids}
  \cup {<<Sheet(FALSE, TRUE, c), Sheet(TRUE, FALSE, FullGrid(0))>> :
          c \in ConcentrationGrids}

PlatemapIdle ==
  /\ book = <<>>
  /\ pm_res = NoPmResult

\* load_platemap_384(path, None, None)
LoadPlatemap ==
  /\ book # <<>>
  /\ pm_res.status = "none"
  /\ pm_res' = load_platemap_384(book)
  /\ UNCHANGED <<book, wi_vars, la_vars, lo_vars, matrix_sheet, np_vars, bh_vars, mw_vars>>

WellIdle ==
  /\ wi_call = NormalizeCall(<<>>)
  /\ wi_enc = NoResult
  /\ wi_norm = NoResult
  /\ wi_pc = "idle"

LayoutIdle ==
  /\ df = [ncols |-> 0, rows |-> <<>>]
  /\ la_t = <<0, 0>>
  /\ la_res = NoLaResult

\* load_plate_matrix_auto(df, t_min_c, t_max_c) with the default search bound
LoadPlateMatrixAuto ==
  /\ matrix_sheet
  /\ la_res.status = "none"
  /\ \E t \in TempRanges :
       /\ la_t' = t
       /\ la_res' = load_plate_matrix_auto(df, t[1], t[2], SEARCH_MAX_START)
  /\ UNCHANGED <<df, wi_vars, lo_vars, matrix_sheet, pm_vars, np_vars, bh_vars, mw_vars>>

PlateNext == LoadPlateMatrixAuto \/ LoadPlateLong

(***************************************************************************)
(* The NPARC engine (src/test_nparc.py).  A float is an exact fraction     *)
(* num/den with den > 0, and den = 0 stands for NaN.                       *)
(***************************************************************************)
RECURSIVE Gcd(_, _)
Gcd(a, b) == IF b = 0 THEN a ELSE Gcd(b, a % b)

Abs(a) == IF a < 0 THEN -a ELSE a

\* the fraction n/d in lowest terms, d # 0
Rat(n, d) ==
  LET g == Gcd(Abs(n), Abs(d))
      s == IF d < 0 THEN -1 ELSE 1
  IN [num |-> (s * n) \div g, den |-> (s * d) \div g]

Num(i) == [num |-> i, den |-> 1]
NanF == [num |-> 0, den |-> 0]

\* np.isfinite
IsFinite(a) == a.den # 0

RatAdd(a, b) ==
  IF IsFinite(a) /\ IsFinite(b)
  THEN Rat(a.num * b.den + b.num * a.den, a.den * b.den) ELSE NanF
RatSub(a, b) ==
  IF IsFinite(a) /\ IsFinite(b)
  THEN Rat(a.num * b.den - b.num * a.den, a.den * b.den) ELSE NanF
RatMul(a, b) ==
  IF IsFinite(a) /\ IsFinite(b)
  THEN Rat(a.num * b.num, a.den * b.den) ELSE NanF
\* a / n for an integer n > 0
RatDivInt(a, n) == IF IsFinite(a) THEN Rat(a.num, a.den * n) ELSE NanF

\* comparisons of floats: every comparison with NaN is false
RatLess(a, b) == IsFinite(a) /\ IsFinite(b) /\ a.num * b.den < b.num * a.den
RatLeq(a, b) == IsFinite(a) /\ IsFinite(b) /\ a.num * b.den <= b.num * a.den

\* a plausible slip: the running maximum is taken
NpMaximum(a, b) ==
  IF ~IsFinite(a) \/ ~IsFinite(b) THEN NanF
  ELSE IF RatLeq(a, b) THEN b ELSE a

\* np.minimum: NaN if either side is NaN
NpMinimum(a, b) ==
  IF ~IsFinite(a) \/ ~IsFinite(b) THEN NanF
  ELSE IF RatLeq(a, b) THEN a ELSE b

RECURSIVE RatSum(_)
RatSum(s) == IF s = <<>> THEN Num(0) ELSE RatAdd(s[1], RatSum(Tail(s)))

\* the positions i, i+1, ... at which both x and y are finite
RECURSIVE FiniteFrom(_, _, _)
FiniteFrom(x, y, i) ==
  IF i > Len(x) THEN <<>>
  ELSE (IF IsFinite(x[i]) /\ IsFinite(y[i]) THEN <<i>> ELSE <<>>)
       \o FiniteFrom(x, y, i + 1)

\* x[m], y[m] with m = np.isfinite(x) & np.isfinite(y)
FinitePairs(x, y) ==
  LET keep == FiniteFrom(x, y, 1)
  IN [x |-> [k \in DOMAIN keep |-> x[keep[k]]],
      y |-> [k \in DOMAIN keep |-> y[keep[k]]]]

\* a plausible slip: the squares are summed without subtracting the mean
fit_null_const_uncentred(x, y) ==
  LET p == FinitePairs(x, y)
      n == Len(p.y)
  IN IF n < 2 THEN [rss |-> NanF, n |-> 0]
     ELSE [rss |-> RatSum([i \in 1..n |-> RatMul(p.y[i], p.y[i])]), n |-> n]

\* _fit_null_const: the residual sum of squares about the mean of the
\* signals, and the number of signals used
fit_null_const(x, y) ==
  LET p == FinitePairs(x, y)
      n == Len(p.y)
      yhat == RatDivInt(RatSum(p.y), n)
  IN IF n < 2 THEN [rss |-> NanF, n |-> 0]
     ELSE [rss |-> RatSum([i \in 1..n |->
                      RatMul(RatSub(p.y[i], yhat), RatSub(p.y[i], yhat))]),
           n |-> n]

\* what curve_fit does with the data of one temperature row is an input of
\* the model: it raises ("fail"), or it returns parameters whose curve
\* passes through every point ("exact"), is the constant mean ("null"),
\* leaves half of the null residual ("half"), or is a worse local optimum
\* ("above")
FitOutcomes == {"exact", "half", "null", "above", "fail"}

\* _fit_4pl: the residual sum of squares of the fitted curve, NaN with
\* fewer than 3 points or when curve_fit raises
fit_4pl(x, y, outcome) ==
  LET p == FinitePairs(x, y)
      null == fit_null_const(x, y).rss
  IN IF Len(p.y) < 3 \/ outcome = "fail" THEN NanF
     ELSE CASE outcome = "exact" -> Num(0)
            [] outcome = "half" -> RatDivInt(null, 2)
            [] outcome = "null" -> null
            [] OTHER -> RatAdd(null, Num(1))

\* a concentration is a whole number of units of 1e-13, so np.round(c, 12)
\* rounds it to a multiple of ten, halves to the even neighbour
Round12(c) ==
  IF ~IsFinite(c) THEN c
  ELSE LET r == c.num % 10
           lo == c.num - r
       IN Num(IF r < 5 THEN lo
              ELSE IF r > 5 THEN lo + 10
              ELSE IF (lo \div 10) % 2 = 0 THEN lo ELSE lo + 10)

\* len(np.unique(np.round(v, 12))) of finite values
DistinctRounded(v) == Cardinality({Round12(v[i]) : i \in DOMAIN v})

RECURSIVE IntSum(_)
IntSum(s) == IF s = <<>> THEN 0 ELSE s[1] + IntSum(Tail(s))

\* _temperatures_from_wide, in hundredths of a degree: an index whose mean
\* is above 150 is taken as kelvin
temperatures_from_wide(wide_k) ==
  LET idx == wide_k.index
      n == Len(idx)
  IN IF n > 0 /\ IntSum(idx) > 150 * n
     THEN [i \in 1..n |-> 100 * idx[i] - 27315]
     ELSE [i \in 1..n |-> 100 * idx[i]]

\* a condition label: missing (NaN), or a text
NoLabel == [na |-> TRUE, text |-> <<>>]
Txt(t) == [na |-> FALSE, text |-> t]

\* ord() of the characters that occur in labels
Ord(ch) == CASE ch = " " -> 32 [] ch = "a" -> 97 [] ch = "b" -> 98
             [] ch = "c" -> 99 [] OTHER -> 120

\* s < t for two texts, as Python orders str
RECURSIVE TextLess(_, _)
TextLess(s, t) ==
  IF t = <<>> THEN FALSE
  ELSE IF s = <<>> THEN TRUE
  ELSE IF s[1] # t[1] THEN Ord(s[1]) < Ord(t[1])
  ELSE TextLess(Tail(s), Tail(t))

\* a set of texts in ascending order
RECURSIVE SortedTexts(_)
SortedTexts(ls) ==
  IF ls = {} THEN <<>>
  ELSE LET l == CHOOSE a \in ls : \A b \in ls \ {a} : TextLess(a, b)
       IN <<l>> \o SortedTexts(ls \ {l})

\* the rows _condition_groups keeps: Condition is there and is not blank
HasCondition(row) == ~row.Condition.na /\ StrStrip(row.Condition.text) # <<>>

\* a plausible slip: blank labels form groups too
condition_groups_blank(platemap) ==
  LET pm == SelectSeq(platemap.rows, LAMBDA row : ~row.Condition.na)
      labels == {pm[i].Condition.text : i \in DOMAIN pm}
      order == SortedTexts(labels)
  IN [g \in DOMAIN order |->
        [cond |-> order[g],
         wells |-> LET mine == SelectSeq(pm, LAMBDA row : row.Condition.text = order[g])
                   IN [i \in DOMAIN mine |-> mine[i].well]]]

\* _condition_groups: the wells of every non-blank condition, the
\* conditions in sorted order (groupby) and the wells in platemap order
condition_groups(platemap) ==
  LET pm == SelectSeq(platemap.rows, HasCondition)
      labels == {pm[i].Condition.text : i \in DOMAIN pm}
      order == SortedTexts(labels)
  IN [g \in DOMAIN order |->
        [cond |-> order[g],
         wells |-> LET mine == SelectSeq(pm, LAMBDA row : row.Condition.text = order[g])
                   IN [i \in DOMAIN mine |-> mine[i].well]]]

RECURSIVE InsertRat(_, _)
InsertRat(v, s) ==
  IF s = <<>> THEN <<v>>
  ELSE IF RatLeq(v, s[1]) THEN <<v>> \o s
  ELSE <<s[1]>> \o InsertRat(v, Tail(s))

\* np.sort of finite floats
RECURSIVE SortRat(_)
SortRat(s) == IF s = <<>> THEN <<>> ELSE InsertRat(s[1], SortRat(Tail(s)))

\* np.nanmedian of a non-empty array of finite floats
nanmedian(s) ==
  LET o == SortRat(s)
      n == Len(o)
  IN IF n % 2 = 1 THEN o[(n + 1) \div 2]
     ELSE RatDivInt(RatAdd(o[n \div 2], o[(n \div 2) + 1]), 2)

(***************************************************************************)
(* scipy.stats.mannwhitneyu(x, y, alternative="less", method="auto").      *)
(* Ranks are averaged over ties; twice a rank is a whole number.           *)
(***************************************************************************)
TwiceRank(v, xy) ==
  2 * Cardinality({i \in DOMAIN xy : RatLess(xy[i], v)})
  + Cardinality({i \in DOMAIN xy : xy[i] = v}) + 1

\* the number of arrangements of m and n values with statistic k
RECURSIVE MwuCount(_, _, _)
MwuCount(k, m, n) ==
  IF k < 0 THEN 0
  ELSE IF m = 0 \/ n = 0 THEN (IF k = 0 THEN 1 ELSE 0)
  ELSE MwuCount(k - n, m - 1, n) + MwuCount(k, m, n - 1)

RECURSIVE MwuCountUpTo(_, _, _)
MwuCountUpTo(k, m, n) ==
  IF k < 0 THEN 0 ELSE MwuCount(k, m, n) + MwuCountUpTo(k - 1, m, n)

\* the number of ways to pick k of n
RECURSIVE Binomial(_, _)
Binomial(n, k) == IF k = 0 THEN 1 ELSE (Binomial(n - 1, k - 1) * n) \div k

\* the normal survival function at 0.0, 0.1, ..., 4.0 in units of 1e-4,
\* rounded up
NormSfTable ==
  <<5000, 4602, 4208, 3821, 3446, 3086, 2743, 2420, 2119, 1841,
    1587, 1357, 1151, 969, 808, 669, 548, 446, 360, 288,
    228, 179, 140, 108, 82, 63, 47, 35, 26, 19,
    14, 10, 7, 5, 4, 3, 2, 2, 1, 1,
    1>>

\* norm.sf(z) for z = sign * sqrt(zn / zd), read from the table at z
\* rounded down to a tenth (so never below the true value for z >= 0);
\* zd = 0 is z = -inf
NormSf(sign, zn, zd) ==
  IF zd = 0 THEN Num(1)
  ELSE IF sign >= 0
  THEN LET k == CHOOSE j \in 0..40 :
                  /\ j * j * zd <= 100 * zn
                  /\ (j = 40 \/ (j + 1) * (j + 1) * zd > 100 * zn)
       IN Rat(NormSfTable[k + 1], 10000)
  ELSE LET k == CHOOSE j \in 0..40 :
                  /\ (j = 40 \/ j * j * zd >= 100 * zn)
                  /\ (j = 0 \/ (j - 1) * (j - 1) * zd < 100 * zn)
       IN Rat(10000 - NormSfTable[k + 1], 10000)

\* a plausible slip: a paired test, the statistic being the number of
\* temperatures at which x is below y
mannwhitneyu_paired(x, y) ==
  [U |-> Num(Cardinality({i \in DOMAIN x : RatLess(x[i], y[i])})),
   p |-> Rat(1 + Cardinality({i \in DOMAIN x : ~RatLess(x[i], y[i])}),
             1 + Len(x))]

\* a plausible slip: the test is run for the opposite alternative
mannwhitneyu_greater(x, y) ==
  LET n1 == Len(x)
      n2 == Len(y)
      n == n1 + n2
      xy == x \o y
      values == Range(xy)
      twiceU1 == IntSum([i \in 1..n1 |-> TwiceRank(x[i], xy)]) - n1 * (n1 + 1)
      ties == Cardinality(values) < n
      tie_term == IntSum([i \in 1..n |->
                    LET t == Cardinality({j \in 1..n : xy[j] = xy[i]})
                    IN t * t - 1])
      a == twiceU1 - n1 * n2 - 1
  IN IF ties \/ (n1 > 8 /\ n2 > 8)
     THEN [U |-> Rat(twiceU1, 2),
           p |-> NormSf(a, a * a * 3 * n * (n - 1),
                        n1 * n2 * ((n + 1) * n * (n - 1) - tie_term))]
     ELSE [U |-> Rat(twiceU1, 2),
           p |-> Rat(MwuCountUpTo(n1 * n2 - (twiceU1 \div 2), n1, n2),
                     Binomial(n, n1))]

\* mannwhitneyu(x, y, alternative="less", method="auto"): the statistic U1
\* of x and the probability of a statistic at most U1; the exact
\* distribution without ties and with a sample of at most 8, the normal
\* approximation with the tie and continuity corrections otherwise
mannwhitneyu(x, y) ==
  LET n1 == Len(x)
      n2 == Len(y)
      n == n1 + n2
      xy == x \o y
      values == Range(xy)
      twiceU1 == IntSum([i \in 1..n1 |-> TwiceRank(x[i], xy)]) - n1 * (n1 + 1)
      twiceU2 == 2 * n1 * n2 - twiceU1
      ties == Cardinality(values) < n
      \* the sum of t^3 - t over the groups of t tied values
      tie_term == IntSum([i \in 1..n |->
                    LET t == Cardinality({j \in 1..n : xy[j] = xy[i]})
                    IN t * t - 1])
      \* twice (U2 - mu - 0.5)
      a == twiceU2 - n1 * n2 - 1
  IN IF ties \/ (n1 > 8 /\ n2 > 8)
     THEN [U |-> Rat(twiceU1, 2),
           p |-> NormSf(a, a * a * 3 * n * (n - 1),
                        n1 * n2 * ((n + 1) * n * (n - 1) - tie_term))]
     ELSE [U |-> Rat(twiceU1, 2),
           p |-> Rat(MwuCountUpTo(twiceU1 \div 2, n1, n2),
                     Binomial(n, n1))]

(***************************************************************************)
(* run_nparc_external.  A wide matrix is [index, columns, data] with one   *)
(* row of data per index value and one float per column; a platemap is     *)
(* [conc_column, rows] with rows [well, Condition, Concentration].         *)
(***************************************************************************)
\* wide_k.iloc[ti][w] if w in wide_k.columns else np.nan
SignalOf(wide_k, ti, w) ==
  IF \E c \in DOMAIN wide_k.columns : wide_k.columns[c] = w
  THEN wide_k.data[ti][CHOOSE c \in DOMAIN wide_k.columns : wide_k.columns[c] = w]
  ELSE NanF

\* conc_map.get(w, np.nan)
ConcOf(platemap, w) ==
  IF \E r \in DOMAIN platemap.rows : platemap.rows[r].well = w
  THEN platemap.rows[CHOOSE r \in DOMAIN platemap.rows :
                       platemap.rows[r].well = w].Concentration
  ELSE NanF

\* the concentrations of the wells of a group that are not NaN
ConcVals(platemap, wells) ==
  SelectSeq([i \in DOMAIN wells |-> ConcOf(platemap, wells[i])], IsFinite)

\* the group passes both tests at the head of the loop: the platemap has
\* a Concentration column and the group's wells carry at least 3 distinct
\* rounded concentrations
Eligible(platemap, wells) ==
  platemap.conc_column /\ DistinctRounded(ConcVals(platemap, wells)) >= 3

\* a plausible slip: the distinct concentrations are not counted
QualifiesAnyConcentration(x) == ~(Len(x) < 3)

\* the temperature is fitted: at least 3 pairs over at least 2 distinct
\* concentrations
Qualifies(x) == ~(Len(x) < 3 \/ DistinctRounded(x) < 2)

\* a plausible slip: four temperatures are enough
HasSummaryFour(n) == n >= 4

\* the condition is summarised
HasSummary(n) == n >= 5

\* the (concentration, signal) pairs of a group at temperature row ti
PairsAt(wide_k, platemap, wells, ti) ==
  FinitePairs([i \in DOMAIN wells |-> ConcOf(platemap, wells[i])],
              [i \in DOMAIN wells |-> SignalOf(wide_k, ti, wells[i])])

\* one pass of the temperature loop: the PerTemperatureFit row of the
\* group at row ti, if there is one
\* a plausible slip: the row is recorded whether or not the fits are
\* defined
FitRowUnchecked(cond, tC, fit0, rss1, value) ==
  <<[Condition |-> cond, Temperature_C |-> tC,
     RSS_null |-> fit0.rss, RSS_alt |-> rss1,
     N_points |-> fit0.n, value_type |-> value]>>

\* rows.append, if both residual sums are finite
FitRow(cond, tC, fit0, rss1, value) ==
  IF IsFinite(fit0.rss) /\ IsFinite(rss1)
  THEN <<[Condition |-> cond, Temperature_C |-> tC,
          RSS_null |-> fit0.rss, RSS_alt |-> rss1,
          N_points |-> fit0.n, value_type |-> value]>>
  ELSE <<>>

FitPairs(cond, tC, p, value, outcome) ==
  IF ~Qualifies(p.x) THEN <<>>
  ELSE FitRow(cond, tC, fit_null_const(p.x, p.y), fit_4pl(p.x, p.y, outcome),
              value)

TemperatureRow(wide_k, platemap, cond, wells, ti, tC, value, curve_fit) ==
  FitPairs(cond, tC, PairsAt(wide_k, platemap, wells, ti), value, curve_fit[ti])

\* the temperature loop from row ti on
RECURSIVE TemperatureRows(_, _, _, _, _, _, _, _)
TemperatureRows(wide_k, platemap, cond, wells, ti, temps_c, value, curve_fit) ==
  IF ti > Len(temps_c) THEN <<>>
  ELSE TemperatureRow(wide_k, platemap, cond, wells, ti, temps_c[ti], value, curve_fit)
       \o TemperatureRows(wide_k, platemap, cond, wells, ti + 1, temps_c, value, curve_fit)

\* the summary of a condition from its rows, before the correction
\* a plausible slip: a temperature where the two fits are equally good
\* counts as one where the alternative is better
SummaryRowNotWorse(cond, rss0, rss1, test, value) ==
  [Condition |-> cond,
   n_temperatures |-> Len(rss0),
   U_stat |-> test.U,
   p_value |-> test.p,
   median_RSS_null |-> nanmedian(rss0),
   median_RSS_alt |-> nanmedian(rss1),
   frac_alt_better |->
     Rat(Cardinality({i \in DOMAIN rss0 : RatLeq(rss1[i], rss0[i])}),
         Len(rss0)),
   value_type |-> value,
   p_adj_BH |-> NanF]

\* summaries.append
SummaryRow(cond, rss0, rss1, test, value) ==
  [Condition |-> cond,
   n_temperatures |-> Len(rss0),
   U_stat |-> test.U,
   p_value |-> test.p,
   median_RSS_null |-> nanmedian(rss0),
   median_RSS_alt |-> nanmedian(rss1),
   frac_alt_better |->
     Rat(Cardinality({i \in DOMAIN rss0 : RatLess(rss1[i], rss0[i])}),
         Len(rss0)),
   value_type |-> value,
   p_adj_BH |-> NanF]

SummaryOfResiduals(cond, rss0, rss1, value) ==
  SummaryRow(cond, rss0, rss1, mannwhitneyu(rss1, rss0), value)

ConditionSummary(cond, rows, value) ==
  SummaryOfResiduals(cond, [i \in DOMAIN rows |-> rows[i].RSS_null],
                     [i \in DOMAIN rows |-> rows[i].RSS_alt], value)

\* the condition loop from group g on: the rows and the summaries
\* a plausible slip: the residuals of the conditions share one list, so a
\* condition is summarised over its rows and those of the later conditions
ConditionTablesShared(cond, rows, value, rest) ==
  [rows |-> rows \o rest.rows,
   summaries |->
     (IF HasSummary(Len(rows \o rest.rows))
      THEN <<ConditionSummary(cond, rows \o rest.rows, value)>> ELSE <<>>)
     \o rest.summaries]

\* the rows of a condition and its summary, if it has one, ahead of those
\* of the later conditions
ConditionTables(cond, rows, value, rest) ==
  [rows |-> rows \o rest.rows,
   summaries |->
     (IF HasSummary(Len(rows))
      THEN <<ConditionSummary(cond, rows, value)>> ELSE <<>>)
     \o rest.summaries]

\* one pass of the condition loop
ConditionPass(wide_k, platemap, cond, wells, temps_c, value, curve_fit, rest) ==
  IF ~Eligible(platemap, wells) THEN rest
  ELSE ConditionTables(cond,
                       TemperatureRows(wide_k, platemap, cond, wells, 1,
                                       temps_c, value, curve_fit),
                       value, rest)

RECURSIVE ConditionLoop(_, _, _, _, _, _, _)
ConditionLoop(wide_k, platemap, groups, g, temps_c, value, curve_fit) ==
  IF g > Len(groups) THEN [rows |-> <<>>, summaries |-> <<>>]
  ELSE ConditionPass(wide_k, platemap, groups[g].cond, groups[g].wells,
                     temps_c, value, curve_fit,
                     ConditionLoop(wide_k, platemap, groups, g + 1, temps_c,
                                   value, curve_fit))

(***************************************************************************)
(* The BH-FDR block at the end of run_nparc_external.                      *)
(***************************************************************************)
\* the value types in the order groupby visits them
ValueTypes == <<"BaselineCorrected", "Raw">>

\* np.argsort(pv): the place of entry i in the ascending order; NaN sorts
\* last, and equal values keep their order (the arrays are short)
RankOf(pv, i) ==
  1 + Cardinality({j \in DOMAIN pv :
        \/ IsFinite(pv[j]) /\ ~IsFinite(pv[i])
        \/ RatLess(pv[j], pv[i])
        \/ (pv[j] = pv[i] /\ j < i)})

\* np.minimum.accumulate(q[order][::-1])[::-1] at place k
RECURSIVE RunningMin(_, _)
RunningMin(qs, k) ==
  IF k = Len(qs) THEN qs[k] ELSE NpMinimum(RunningMin(qs, k + 1), qs[k])

\* a plausible slip: the running minimum is left out
bh_adjust_raw(pv) ==
  LET m == Len(pv)
  IN [i \in DOMAIN pv |-> RatDivInt(RatMul(pv[i], Num(m)), RankOf(pv, i))]

\* the adjusted p-values of one value_type group
bh_adjust(pv) ==
  LET m == Len(pv)
      q == [i \in DOMAIN pv |-> RatDivInt(RatMul(pv[i], Num(m)), RankOf(pv, i))]
      q_ordered == [k \in DOMAIN pv |->
                      q[CHOOSE i \in DOMAIN pv : RankOf(pv, i) = k]]
  IN [i \in DOMAIN pv |-> RunningMin(q_ordered, RankOf(pv, i))]

\* the rows of one value type, and where they sit in the summary
GroupRows(summary, vt) ==
  SelectSeq(summary, LAMBDA s : s.value_type = vt)

WithAdjusted(rows, adj) ==
  [i \in DOMAIN rows |-> [rows[i] EXCEPT !.p_adj_BH = adj[i]]]

\* the block: the groups are corrected one by one and concatenated; a
\* summary without any defined p-value gets NaN throughout
bh_fdr(summary) ==
  IF summary # <<>> /\ \E i \in DOMAIN summary : IsFinite(summary[i].p_value)
  THEN LET bc == GroupRows(summary, ValueTypes[1])
           raw == GroupRows(summary, ValueTypes[2])
       IN WithAdjusted(bc, bh_adjust([i \in DOMAIN bc |-> bc[i].p_value]))
          \o WithAdjusted(raw, bh_adjust([i \in DOMAIN raw |-> raw[i].p_value]))
  ELSE WithAdjusted(summary, [i \in DOMAIN summary |-> NanF])

NparcResult(status, rss_long, summary) ==
  [status |-> status, rss_long |-> rss_long, summary |-> summary]

NoNparcResult == NparcResult("none", <<>>, <<>>)

\* run_nparc_external; curve_fit[value][ti] is what curve_fit does at
\* temperature row ti of the matrix of that value type
NparcTables(loop) == NparcResult("ok", loop.rows, bh_fdr(loop.summaries))

NparcOf(wide_k, platemap, value, curve_fit) ==
  NparcTables(ConditionLoop(wide_k, platemap, condition_groups(platemap), 1,
                            temperatures_from_wide(wide_k), value, curve_fit))

run_nparc_external(raw_wide_k, raw_corr_wide_k, platemap, value, curve_fit) ==
  NparcOf(IF value = "BaselineCorrected" THEN raw_corr_wide_k ELSE raw_wide_k,
          platemap, value, curve_fit[value])

\* a plausible slip: the concatenated summary is corrected once more, as
\* one pool
summary_concat_pooled(bc_summary, raw_summary) ==
  LET all == bc_summary \o raw_summary
  IN IF all # <<>> /\ \E i \in DOMAIN all : IsFinite(all[i].p_value)
     THEN WithAdjusted(all, bh_adjust([i \in DOMAIN all |-> all[i].p_value]))
     ELSE all

\* pd.concat([nparc_bc["summary"], nparc_raw["summary"]])
summary_concat(bc_summary, raw_summary) == bc_summary \o raw_summary

\* main: both value types are analysed and the tables are concatenated,
\* baseline-corrected first
MainTables(nparc_bc, nparc_raw) ==
  NparcResult("ok", nparc_bc.rss_long \o nparc_raw.rss_long,
              summary_concat(nparc_bc.summary, nparc_raw.summary))

nparc_main(raw_wide_k, raw_corr_wide_k, platemap, curve_fit) ==
  MainTables(run_nparc_external(raw_wide_k, raw_corr_wide_k, platemap,
                                "BaselineCorrected", curve_fit),
             run_nparc_external(raw_wide_k, raw_corr_wide_k, platemap,
                                "Raw", curve_fit))

(***************************************************************************)
(* Inputs of the NPARC engine.  A condition is laid out as nconc           *)
(* concentrations (10, 20, ... units) times nrep replicates; the defect    *)
(* "round" moves the second concentration to 11 units, which rounds to     *)
(* the first, and "nan" leaves the last concentration out.                 *)
(***************************************************************************)
\* most distinct concentrations of a condition
MaxConcs == 3
\* most replicate wells per concentration
MaxReps == 3
\* most temperature rows of a matrix
MaxTemps == 6

ConcDefects == {"none", "round", "nan"}

ConcValue(k, nconc, defect) ==
  IF defect = "round" /\ k = 2 THEN Num(11)
  ELSE IF defect = "nan" /\ k = nconc THEN NanF
  ELSE Num(10 * k)

\* the wells of a condition: replicate r of concentration k is entry
\* (r - 1) * nconc + k
ConditionEntries(label, nconc, nrep, defect) ==
  [i \in 1..(nconc * nrep) |->
     [Condition |-> label,
      Concentration |-> ConcValue(((i - 1) % nconc) + 1, nconc, defect),
      k |-> ((i - 1) % nconc) + 1,
      r |-> ((i - 1) \div nconc) + 1]]

LabelA == Txt(<<"a">>)
LabelB == Txt(<<"b">>)

\* the labels _condition_groups drops: missing, empty, whitespace
BlankKinds == {"missing", "empty", "spaces"}
BlankLabel(blank) ==
  CASE blank = "missing" -> NoLabel
    [] blank = "empty" -> Txt(<<>>)
    [] OTHER -> Txt(<<" ", " ">>)

\* a platemap of condition "a", optionally condition "b" (3 concentrations,
\* one replicate) and optionally 3 wells with a blank label
NparcLayout(nconc, nrep, defect, with_b, blank) ==
  ConditionEntries(LabelA, nconc, nrep, defect)
  \o (IF with_b THEN ConditionEntries(LabelB, 3, 1, "none") ELSE <<>>)
  \o (IF blank \in BlankKinds
      THEN ConditionEntries(BlankLabel(blank), 3, 1, "none") ELSE <<>>)

PlatemapOf(layout, conc_column) ==
  [conc_column |-> conc_column,
   rows |-> [i \in DOMAIN layout |->
               [well |-> all_well_ids_384[i],
                Condition |-> layout[i].Condition,
                Concentration |-> layout[i].Concentration]]]

\* the signal of a well at temperature row ti: "dose" grows with the
\* concentration, "flat" is the same in every well
SignalKinds == {"dose", "flat"}
SignalValue(kind, ti, e) ==
  IF kind = "flat" THEN Num(5 + ti)
  ELSE IF e.Condition = LabelB THEN Num((10 + ti) * e.k + e.k * e.k)
  ELSE Num((10 + ti) * e.k)

\* which signals of condition "a" are missing in the first nholes rows:
\* those of its first concentration, all but those of its first
\* concentration, or all but its first replicate
HoleKinds == {"conc1", "keep1", "rep1"}
IsHole(hole, nholes, ti, e) ==
  /\ ti <= nholes
  /\ e.Condition = LabelA
  /\ \/ hole = "conc1" /\ e.k = 1
     \/ hole = "keep1" /\ e.k # 1
     \/ hole = "rep1" /\ e.r # 1

\* which wells of the platemap are no columns of the matrix: none, those
\* of the last concentration of "a", or all wells of "a"
MissingKinds == {"none", "last", "all"}
IsColumn(missing, nconc, e) ==
  ~ \/ missing = "last" /\ e.Condition = LabelA /\ e.k = nconc
    \/ missing = "all" /\ e.Condition = LabelA

\* the matrix over nT temperatures starting at t0 (kelvin or celsius)
WideOf(layout, nconc, missing, nT, t0, kind, hole, nholes) ==
  LET cols == SelectSeq([i \in DOMAIN layout |-> i],
                        LAMBDA i : IsColumn(missing, nconc, layout[i]))
  IN [index |-> [ti \in 1..nT |-> t0 + ti - 1],
      columns |-> [c \in DOMAIN cols |-> all_well_ids_384[cols[c]]],
      data |-> [ti \in 1..nT |->
                  [c \in DOMAIN cols |->
                     IF IsHole(hole, nholes, ti, layout[cols[c]]) THEN NanF
                     ELSE SignalValue(kind, ti, layout[cols[c]])]]]

\* what curve_fit does: k1 at the odd rows and k2 at the even rows
FitPattern(k1, k2) == [ti \in 1..(MaxTemps + 1) |-> IF ti % 2 = 1 THEN k1 ELSE k2]

NparcInput(nconc, nrep, defect, with_b, blank, conc_column, missing,
           nT, t0, corr_kind, hole, nholes, k1, k2) ==
  LET layout == NparcLayout(nconc, nrep, defect, with_b, blank)
  IN [platemap |-> PlatemapOf(layout, conc_column),
      raw |-> WideOf(layout, nconc, missing, nT, t0, "dose", hole, nholes),
      corr |-> WideOf(layout, nconc, missing, nT, t0, corr_kind, hole, nholes),
      curve_fit |-> [Raw |-> FitPattern(k1, k2),
                     BaselineCorrected |-> FitPattern(k2, k1)]]

\* platemaps and matrices that differ in the layout of condition "a"
LayoutInputs ==
  {NparcInput(nconc, nrep, defect, with_b, "none", TRUE, missing,
              5, 310, "flat", "conc1", 0, "exact", "exact") :
     nconc \in 1..MaxConcs, nrep \in 1..MaxReps, defect \in ConcDefects,
     with_b \in BOOLEAN, missing \in MissingKinds}
  \cup
  {NparcInput(nconc, 1, "none", FALSE, blank, conc_column, "none",
              5, 310, "flat", "conc1", 0, "exact", "exact") :
     nconc \in 1..MaxConcs, blank \in BlankKinds, conc_column \in BOOLEAN}

\* matrices that differ in the number of temperatures and in the signals
\* that are missing
TemperatureInputs ==
  {NparcInput(3, nrep, "none", with_b, "none", TRUE, "none",
              d[1], 310, "flat", hole, d[2], "exact", "exact") :
     nrep \in {1, MaxReps}, with_b \in BOOLEAN, hole \in HoleKinds,
     d \in {e \in (1..MaxTemps) \X (0..MaxTemps) : e[2] <= e[1]}}

\* matrices that differ in what curve_fit does, in kelvin and in celsius
FitInputs ==
  {NparcInput(3, 1, "none", with_b, "none", TRUE, "none",
              nT, t0, corr_kind, "conc1", 0, k1, k2) :
     with_b \in BOOLEAN, nT \in {MaxTemps - 1, MaxTemps}, t0 \in {310, 37},
     corr_kind \in SignalKinds, k1 \in FitOutcomes, k2 \in FitOutcomes}

\* curve_fit raises at the first temperature row only
FailFirst(k) ==
  [ti \in 1..(MaxTemps + 1) |-> IF ti = 1 THEN "fail" ELSE k]

\* matrices of which one temperature cannot be fitted
FailInputs ==
  {[NparcInput(3, nrep, "none", with_b, "none", TRUE, "none",
               MaxTemps, 310, "dose", "conc1", 0, "exact", "exact")
      EXCEPT !.curve_fit = [Raw |-> FailFirst(k),
                            BaselineCorrected |-> FailFirst("half")]] :
     nrep \in 1..2, with_b \in BOOLEAN, k \in {"exact", "above"}}

NparcInputs == LayoutInputs \cup TemperatureInputs \cup FitInputs \cup FailInputs

NoNparcInput ==
  [platemap |-> [conc_column |-> FALSE, rows |-> <<>>],
   raw |-> [index |-> <<>>, columns |-> <<>>, data |-> <<>>],
   corr |-> [index |-> <<>>, columns |-> <<>>, data |-> <<>>],
   curve_fit |-> [Raw |-> <<>>, BaselineCorrected |-> <<>>]]

NparcIdle ==
  /\ nparc_in = NoNparcInput
  /\ nparc_call = "none"
  /\ nparc_res = NoNparcResult

\* run_nparc_external(raw_wide, raw_corr_wide, platemap, value)
RunNparcExternal ==
  /\ nparc_in # NoNparcInput
  /\ nparc_call = "none"
  /\ \E value \in {"Raw", "BaselineCorrected"} :
       /\ nparc_call' = value
       /\ nparc_res' = run_nparc_external(nparc_in.raw, nparc_in.corr,
                                          nparc_in.platemap, value,
                                          nparc_in.curve_fit)
  /\ UNCHANGED <<nparc_in, wi_vars, la_vars, lo_vars, matrix_sheet, pm_vars, bh_vars, mw_vars>>

\* main: the two calls and the concatenation of their tables
NparcMain ==
  /\ nparc_in # NoNparcInput
  /\ nparc_call = "none"
  /\ nparc_call' = "main"
  /\ nparc_res' = nparc_main(nparc_in.raw, nparc_in.corr, nparc_in.platemap,
                             nparc_in.curve_fit)
  /\ UNCHANGED <<nparc_in, wi_vars, la_vars, lo_vars, matrix_sheet, pm_vars, bh_vars, mw_vars>>

NparcNext == RunNparcExternal \/ NparcMain


(***************************************************************************)
(* The BH-FDR block on its own: the summaries of the two value types are   *)
(* given by their p-values, each is corrected as at the end of its call,   *)
(* and main concatenates them.  A second run replaces the summaries of     *)
(* one value type by others.                                               *)
(***************************************************************************)
\* most conditions summarised for a value type
MaxSummaries == 3

PValues == {NanF, Rat(1, 100), Rat(3, 100), Rat(1, 2)}

PLists(n) == UNION {[1..k -> PValues] : k \in 0..n}

\* the summary rows of a value type before the correction
SummaryOf(ps, vt) ==
  [i \in DOMAIN ps |->
     [Condition |-> <<"c">> \o StrOfInt(i), value_type |-> vt,
      p_value |-> ps[i], p_adj_BH |-> NanF]]

NoBhInput == [bc |-> <<>>, raw |-> <<>>, alt |-> <<>>, alt_of |-> "none"]
NoBhResult == [one |-> <<>>, two |-> <<>>, runs |-> 0]

BhInputs ==
  {[bc |-> bc, raw |-> raw, alt |-> alt, alt_of |-> vt] :
     raw \in PLists(MaxSummaries), bc \in PLists(2), alt \in PLists(1),
     vt \in {"Raw", "BaselineCorrected"}}

BhIdle ==
  /\ bh_in = NoBhInput
  /\ bh_res = NoBhResult

\* the summary main ends up with for the given p-values
CorrectedSummary(bc, raw) ==
  summary_concat(bh_fdr(SummaryOf(bc, "BaselineCorrected")),
                 bh_fdr(SummaryOf(raw, "Raw")))

\* the first run
CorrectSummaries ==
  /\ bh_in # NoBhInput
  /\ bh_res.runs = 0
  /\ bh_res' = [bh_res EXCEPT !.runs = 1,
                              !.one = CorrectedSummary(bh_in.bc, bh_in.raw)]
  /\ UNCHANGED <<bh_in, wi_vars, la_vars, lo_vars, matrix_sheet, pm_vars, np_vars, mw_vars>>

\* the second run, with the summaries of one value type replaced
CorrectAlternative ==
  /\ bh_res.runs = 1
  /\ bh_res' = [bh_res EXCEPT
                  !.runs = 2,
                  !.two = IF bh_in.alt_of = "Raw"
                          THEN CorrectedSummary(bh_in.bc, bh_in.alt)
                          ELSE CorrectedSummary(bh_in.alt, bh_in.raw)]
  /\ UNCHANGED <<bh_in, wi_vars, la_vars, lo_vars, matrix_sheet, pm_vars, np_vars, mw_vars>>

BhNext == CorrectSummaries \/ CorrectAlternative


(***************************************************************************)
(* The condition-level test on its own: the two lists of residual sums of  *)
(* a condition are summarised as at the end of the temperature loop, and a *)
(* second run summarises them with the RSS_null values moved to other      *)
(* temperatures (rotated by shift places), the RSS_alt values staying.     *)
(***************************************************************************)
\* most temperatures of the summarised condition
MaxPaired == 5

AltLevels == {Num(0), Num(4), Num(10)}

\* RSS_null 1, 3, 5, ... over n temperatures
NullVector(n) == [i \in 1..n |-> Num(2 * i - 1)]

\* RSS_alt: every list over the levels, and two lists without equal values
AltVectors(n) ==
  [1..n -> AltLevels]
  \cup {[i \in 1..n |-> Num(2 * i)], [i \in 1..n |-> Num(2 * (n + 1 - i))]}

Rotated(s, k) == [i \in DOMAIN s |-> s[((i - 1 + k) % Len(s)) + 1]]

MwInputs ==
  UNION {{[rss_null |-> NullVector(n), rss_alt |-> alt, shift |-> k] :
            alt \in AltVectors(n), k \in 1..(n - 1)} : n \in 5..MaxPaired}

NoMwInput == [rss_null |-> <<>>, rss_alt |-> <<>>, shift |-> 0]
NoMwResult == [one |-> <<>>, two |-> <<>>, runs |-> 0]

MwIdle ==
  /\ mw_in = NoMwInput
  /\ mw_res = NoMwResult

\* the summary of the condition from its residual sums, if it has one
SummariesFrom(rss0, rss1) ==
  IF HasSummary(Len(rss0))
  THEN <<SummaryOfResiduals(<<"c">>, rss0, rss1, "Raw")>> ELSE <<>>

\* the first run
SummariseCondition ==
  /\ mw_in # NoMwInput
  /\ mw_res.runs = 0
  /\ mw_res' = [mw_res EXCEPT
                  !.runs = 1,
                  !.one = SummariesFrom(mw_in.rss_null, mw_in.rss_alt)]
  /\ UNCHANGED <<mw_in, wi_vars, la_vars, lo_vars, matrix_sheet, pm_vars, np_vars, bh_vars>>

\* the second run, the RSS_null values paired with other temperatures
SummariseRepaired ==
  /\ mw_res.runs = 1
  /\ mw_res' = [mw_res EXCEPT
                  !.runs = 2,
                  !.two = SummariesFrom(Rotated(mw_in.rss_null, mw_in.shift),
                                        mw_in.rss_alt)]
  /\ UNCHANGED <<mw_in, wi_vars, la_vars, lo_vars, matrix_sheet, pm_vars, np_vars, bh_vars>>

MwNext == SummariseCondition \/ SummariseRepaired

WellSpecInit ==
  /\ WellInit /\ LayoutIdle /\ LongIdle /\ matrix_sheet = FALSE /\ PlatemapIdle
  /\ NparcIdle /\ BhIdle /\ MwIdle

\* the well-identity functions on their own
SpecWell == WellSpecInit /\ [][WellNext]_vars

PlateInit ==
  /\ WellIdle
  /\ PlatemapIdle
  /\ NparcIdle /\ BhIdle /\ MwIdle
  /\ \/ matrix_sheet = TRUE /\ LayoutInit /\ LongIdle
     \/ matrix_sheet = FALSE /\ LongInit /\ LayoutIdle

\* load_plate_auto: a workbook is read either as a matrix sheet or as a
\* long-form table
SpecPlate == PlateInit /\ [][PlateNext]_vars

PlatemapInit ==
  /\ WellIdle /\ LayoutIdle /\ LongIdle /\ matrix_sheet = FALSE
  /\ book \in Workbooks
  /\ pm_res = NoPmResult
  /\ NparcIdle /\ BhIdle /\ MwIdle

\* the plate-map resolver on its own
SpecPlatemap == PlatemapInit /\ [][LoadPlatemap]_vars

NparcInit ==
  /\ WellIdle /\ LayoutIdle /\ LongIdle /\ matrix_sheet = FALSE /\ PlatemapIdle
  /\ BhIdle /\ MwIdle
  /\ nparc_in \in NparcInputs
  /\ nparc_call = "none"
  /\ nparc_res = NoNparcResult

\* the NPARC engine: one call for a value type, or main's two calls
SpecNparc == NparcInit /\ [][NparcNext]_vars

BhInit ==
  /\ WellIdle /\ LayoutIdle /\ LongIdle /\ matrix_sheet = FALSE /\ PlatemapIdle
  /\ NparcIdle /\ MwIdle
  /\ bh_in \in BhInputs
  /\ bh_res = NoBhResult

\* the multiple-testing correction on its own
SpecBH == BhInit /\ [][BhNext]_vars

MwInit ==
  /\ WellIdle /\ LayoutIdle /\ LongIdle /\ matrix_sheet = FALSE /\ PlatemapIdle
  /\ NparcIdle /\ BhIdle
  /\ mw_in \in MwInputs
  /\ mw_res = NoMwResult

\* the condition-level test on its own
SpecMwu == MwInit /\ [][MwNext]_vars

(***************************************************************************)
(* Well identity: properties.                                              *)
(***************************************************************************)
InRange(row, col) == row \in 1..NROWS /\ col \in 1..NCOLS

Repeat(ch, n) == [i \in 1..n |-> ch]

\* the texts the documentation calls well identifiers: a row letter A-P in
\* either case, zero padding, a column number 1..24
WellText(L, lower, z, c) ==
  <<IF lower THEN LowerLetters[L] ELSE UpperLetters[L]>>
    \o Repeat("0", z) \o StrOfInt(c)

IsWellText(t) ==
  /\ Len(t) >= 2
  /\ \E L \in 1..NROWS : t[1] \in {LowerLetters[L], UpperLetters[L]}
  /\ \E c \in 1..NCOLS :
       LET ds == StrOfInt(c)
           z == Len(t) - 1 - Len(ds)
       IN /\ z >= 0
          /\ SubSeq(t, z + 2, Len(t)) = ds
          /\ \A i \in 2..(z + 1) : t[i] = "0"

\* a well identifier, optionally surrounded by blanks
ParsesAsWell(t) ==
  \E a \in 0..Len(t) : \E b \in 0..(Len(t) - a) :
     /\ \A i \in 1..a : IsSpace(t[i])
     /\ \A i \in (Len(t) - b + 1)..Len(t) : IsSpace(t[i])
     /\ IsWellText(SubSeq(t, a + 1, Len(t) - b))

\* C1: for every row in 1..16 and col in 1..24, well_id_from_rowcol returns
\* an identifier and normalize_well_id maps that identifier to itself.
C1_RoundTrip ==
  (wi_call.fn = "encode" /\ InRange(wi_call.row, wi_call.col)) =>
     /\ (wi_pc # "start" => wi_enc.status = "ok")
     /\ (wi_pc = "done" => wi_norm.value = wi_enc.value)

C1_Witness ==
  /\ wi_pc = "done"
  /\ wi_call.fn = "encode" /\ wi_call.row = 16 /\ wi_call.col = 24
  /\ wi_norm.value = <<"P", "2", "4">>

\* C2: well_id_from_rowcol never returns an identifier for a row outside
\* 1..16 or a column outside 1..24: it fails.
C2_OutOfRangeFails ==
  (wi_pc # "start" /\ wi_call.fn = "encode"
     /\ ~InRange(wi_call.row, wi_call.col)) => wi_enc.status # "ok"

\* C3: a row letter A-P in either case followed by a column number 1..24
\* with any zero padding is mapped to <uppercase letter><column number>.
C3_Canonical ==
  (wi_pc = "done" /\ wi_call.fn = "normalize" /\ Len(wi_call.text) >= 2) =>
     \A L \in 1..NROWS, lower \in BOOLEAN :
        wi_call.text[1] = (IF lower THEN LowerLetters[L] ELSE UpperLetters[L])
          => \A c \in 1..NCOLS, z \in 0..MaxTextLen :
                wi_call.text = WellText(L, lower, z, c)
                  => wi_norm.value = <<UpperLetters[L]>> \o StrOfInt(c)

C3_Witness ==
  /\ wi_pc = "done"
  /\ wi_call.fn = "normalize"
  /\ wi_call.text = <<"a", "0", "1">>
  /\ wi_norm.value = <<"A", "1">>

\* C4 as claimed: a text that does not parse as a well identifier is
\* returned character for character as it was passed in.
C4_UnparsableUnchanged ==
  (wi_pc = "done" /\ wi_call.fn = "normalize" /\ ~ParsesAsWell(wi_call.text))
     => wi_norm.value = wi_call.text

\* C4 as amended: a text that does not parse as a well identifier is
\* returned with its surrounding whitespace dropped and its letters in
\* upper case, and nothing else changed.
C4_UnparsableCleaned ==
  (wi_pc = "done" /\ wi_call.fn = "normalize" /\ ~ParsesAsWell(wi_call.text))
     => LET t == wi_call.text
            out == wi_norm.value
            solid == {i \in DOMAIN t : ~IsSpace(t[i])}
        IN IF solid = {} THEN out = <<>>
           ELSE \E lo \in solid, hi \in solid :
                  /\ \A j \in solid : lo <= j /\ j <= hi
                  /\ Len(out) = hi - lo + 1
                  /\ \A i \in 1..Len(out) : out[i] = UpperChar(t[lo + i - 1])

C4_Witness ==
  /\ wi_pc = "done"
  /\ wi_call.fn = "normalize"
  /\ wi_call.text = <<" ", "Q", "1", "a">>
  /\ wi_norm.value = <<"Q", "1", "A">>

(***************************************************************************)
(* Plate loaders: properties.                                              *)
(***************************************************************************)
\* a header cell that holds an integer in lo..hi
HoldsIntIn(c, lo, hi) == c.k \in {"int", "numstr"} /\ c.v >= lo /\ c.v <= hi

\* the windows of a sheet inside the search bounds: two adjacent header rows
\* the sheet has, 384 columns from start column st
CandidateWindows(d) ==
  {<<r, st>> \in (0..3) \X (0..SEARCH_MAX_START) :
     r + 2 <= NRowsOf(d) /\ st + WINDOW <= NColsOf(d)}

\* the number of valid header positions of the window at rows (r, r+1) and
\* start column st
ValidPositions(d, r, st) ==
  Cardinality({k \in 1..WINDOW :
     /\ HoldsIntIn(d.rows[r + 1][st + k], 1, NROWS)
     /\ HoldsIntIn(d.rows[r + 2][st + k], 1, NCOLS)})

\* a perfect 1-based 16 x 24 header pair at rows (r, r+1) from column st
PerfectHeaderAt(d, r, st) ==
  \A k \in 0..(WINDOW - 1) :
     /\ d.rows[r + 1][st + k + 1] = IntCell((k \div NCOLS) + 1)
     /\ d.rows[r + 2][st + k + 1] = IntCell((k % NCOLS) + 1)

MatrixLoaded == matrix_sheet /\ la_res.status # "none"
LongLoaded == ~matrix_sheet /\ lo_res.status # "none"

\* C5: a sheet with a perfect header pair at rows (r, r+1) and start column
\* s inside the search bounds, and no other window of score 384, is loaded,
\* and the debug record is exactly (r, r+1, s, s+384, 384), whatever the
\* number of measurement rows.
C5_DetectsPerfectHeader ==
  MatrixLoaded =>
    \A w \in CandidateWindows(df) :
       (/\ PerfectHeaderAt(df, w[1], w[2])
        /\ \A o \in CandidateWindows(df) \ {w} :
              ValidPositions(df, o[1], o[2]) < WINDOW)
       => /\ la_res.status = "ok"
          /\ la_res.dbg = [found |-> TRUE, r1 |-> w[1], r2 |-> w[1] + 1,
                           start |-> w[2], end |-> w[2] + WINDOW,
                           score |-> WINDOW]

\* C6: a sheet is rejected with the layout-not-detected error, which carries
\* the best score, exactly when no candidate window has 300 valid header
\* positions.
C6_ThresholdRejection ==
  MatrixLoaded =>
    LET scores == {ValidPositions(df, w[1], w[2]) : w \in CandidateWindows(df)}
    IN IF \A sc \in scores : sc < THRESHOLD
       THEN /\ la_res.status = "LayoutNotDetected"
            /\ scores # {} => /\ la_res.dbg.found
                              /\ \A sc \in scores : sc <= la_res.dbg.score
       ELSE la_res.status # "LayoutNotDetected"

\* the scan ended and its best window passed the threshold
Accepted ==
  /\ MatrixLoaded
  /\ la_res.at # 150
  /\ la_res.dbg.found /\ la_res.dbg.score >= THRESHOLD

\* C7: every accepted sheet, whatever its score in 300..384, yields a matrix
\* whose columns are the 384 canonical well identifiers in row-major order,
\* each row of the matrix holding a cell for each.
C7_MatrixComplete ==
  Accepted =>
    /\ la_res.status = "ok"
    /\ la_res.columns = all_well_ids_384
    /\ \A t \in DOMAIN la_res.data : DOMAIN la_res.data[t] = 1..(NROWS * NCOLS)

\* C9: on both loading paths an input with fewer than 2 measurement points
\* fails; no matrix is returned.
C9_TwoPointsRequired ==
  /\ (MatrixLoaded /\ la_res.dbg.found
        /\ NRowsOf(df) - (la_res.dbg.r2 + 1) < 2) => la_res.status # "ok"
  /\ (LongLoaded /\ NColsOf(lf) - 2 < 2) => lo_res.status = "ValueError"

\* C10: the temperature axis of a loaded matrix has one value per sheet row
\* below the column-number header, starts at t_min, ends at t_max, has equal
\* steps of (t_max - t_min)/(n_points - 1), and the i-th measurement row
\* goes with the i-th temperature.
C10_TemperatureAxis ==
  (MatrixLoaded /\ la_res.status = "ok") =>
    LET temps == la_res.temps
        n == Len(temps)
    IN /\ n = NRowsOf(df) - (la_res.dbg.r2 + 1)
       /\ Len(la_res.data) = n
       /\ n >= 1 => /\ temps[1].num = la_t[1] * temps[1].den
                    /\ temps[n].num = la_t[2] * temps[n].den
       /\ \A i \in 1..(n - 1) :
            (temps[i + 1].num * temps[i].den - temps[i].num * temps[i + 1].den)
               * (n - 1)
              = (la_t[2] - la_t[1]) * temps[i].den * temps[i + 1].den

\* a perfect 0-based 16 x 24 header pair at rows (r, r+1) from column st
ZeroBasedHeaderAt(d, r, st) ==
  \A k \in 0..(WINDOW - 1) :
     /\ d.rows[r + 1][st + k + 1] = IntCell(k \div NCOLS)
     /\ d.rows[r + 2][st + k + 1] = IntCell(k % NCOLS)

\* the scan visited every candidate window
Scanned == MatrixLoaded /\ la_res.at # 150

\* C21: the score is taken after both axes are coerced to 1-based when an
\* axis has minimum 0, so a sheet with a perfect 0-based header pair (rows
\* 0..15, columns 0..23) in a candidate window has best score 384.
C21_ZeroBasedScoresFull ==
  Scanned =>
    \A w \in CandidateWindows(df) :
       ZeroBasedHeaderAt(df, w[1], w[2])
          => la_res.dbg.found /\ la_res.dbg.score = WINDOW

\* the score _score_header_pair gives the window at rows (r, r+1) and start
\* column st
ScoreAt(d, r, st) ==
  ScoreHeaderPair(RowSlice(d, r, st, st + WINDOW),
                  RowSlice(d, r + 1, st, st + WINDOW))

\* window (r, st) comes before window (q, su) in the order of the two loops
FirstOf(r, st, q, su) == r < q \/ (r = q /\ st <= su)

\* C22: the window selected has the maximal score of the candidate windows
\* and is the first of those with that score: the lowest header row pair,
\* and within it the lowest start column.
C22_FirstBestKept ==
  (Scanned /\ la_res.dbg.found) =>
    \A w \in CandidateWindows(df) :
       LET sc == ScoreAt(df, w[1], w[2])
       IN /\ sc <= la_res.dbg.score
          /\ sc = la_res.dbg.score
               => FirstOf(la_res.dbg.r1, la_res.dbg.start, w[1], w[2])

\* a later start column of the same row pair has the same score as the
\* window selected
C22_Witness ==
  /\ Scanned /\ la_res.status = "ok"
  /\ la_res.dbg.start + 1 + WINDOW <= NColsOf(df)
  /\ ScoreAt(df, la_res.dbg.r1, la_res.dbg.start + 1) = la_res.dbg.score

\* C23 as claimed: the window selected has both header rows within the
\* first 4 rows of the grid and its start column among the offsets 0..19;
\* a grid narrower than 384 columns has no candidate.
C23_SearchBoundsTwenty ==
  /\ (Scanned /\ la_res.dbg.found) =>
       /\ la_res.dbg.r1 >= 0 /\ la_res.dbg.r2 <= 3
       /\ la_res.dbg.start >= 0 /\ la_res.dbg.start <= SEARCH_MAX_START - 1
       /\ la_res.dbg.end <= NColsOf(df)
  /\ (MatrixLoaded /\ NColsOf(df) < WINDOW) =>
       la_res.status = "LayoutNotDetected" /\ ~la_res.dbg.found

\* C23 as amended: the candidate windows are those whose row-number header
\* is one of the first 4 rows, with the column-number header in the next
\* row (the fifth row at most), and whose start column is one of the 21
\* offsets 0..20 with start + 384 <= number of columns.  The window
\* selected is one of them and none of them has a higher score; a grid
\* narrower than 384 columns has no candidate.
C23_SearchBounds ==
  /\ (Scanned /\ la_res.dbg.found) =>
       /\ la_res.dbg.r1 \in 0..3 /\ la_res.dbg.r2 = la_res.dbg.r1 + 1
       /\ la_res.dbg.start \in 0..SEARCH_MAX_START
       /\ la_res.dbg.end = la_res.dbg.start + WINDOW
       /\ la_res.dbg.end <= NColsOf(df)
  /\ Scanned =>
       \A r \in 0..3, st \in 0..SEARCH_MAX_START :
          (r + 2 <= NRowsOf(df) /\ st + WINDOW <= NColsOf(df)
             /\ ScoreAt(df, r, st) >= 0)
          => la_res.dbg.found /\ ScoreAt(df, r, st) <= la_res.dbg.score
  /\ (MatrixLoaded /\ NColsOf(df) < WINDOW) =>
       la_res.status = "LayoutNotDetected" /\ ~la_res.dbg.found

\* a header pair in the fourth and fifth row from start column 20 is
\* selected
C23_Witness ==
  /\ MatrixLoaded /\ la_res.status = "ok"
  /\ la_res.dbg.r1 = 3 /\ la_res.dbg.r2 = 4
  /\ la_res.dbg.start = SEARCH_MAX_START
  /\ la_res.dbg.score = WINDOW

\* the row and column numbers of the header pair of the window selected,
\* as lines 159-165 normalise them
HeaderMinIsZero(d, r, st) ==
  /\ \E k \in 1..WINDOW : d.rows[r + 1][st + k].v = 0
  /\ \A k \in 1..WINDOW : d.rows[r + 1][st + k].v >= 0

HeaderShift(d, b) ==
  IF HeaderMinIsZero(d, b.r1, b.start) \/ HeaderMinIsZero(d, b.r2, b.start)
  THEN 1 ELSE 0

\* the place among the 384 canonical wells of row number R and column
\* number C, 0 if there is none
PlaceOf(R, C) ==
  IF R >= 1 /\ R <= NROWS /\ C >= 1 /\ C <= NCOLS THEN (R - 1) * NCOLS + C ELSE 0

\* the places the header positions of the window selected name, the numbers
\* shifted by sh
HeaderPlaces(d, b, sh) ==
  Evaluated([k \in 1..WINDOW |->
               PlaceOf(d.rows[b.r1 + 1][b.start + k].v + sh,
                       d.rows[b.r2 + 1][b.start + k].v + sh)])

\* the measurement cells of the window are found unchanged at the places
\* given, one matrix row per sheet row below the header pair
CellsAtPlaces(d, b, places, out) ==
  /\ Len(out.data) = NRowsOf(d) - (b.r2 + 1)
  /\ \A t \in DOMAIN out.data : \A k \in 1..WINDOW :
        places[k] # 0 => out.data[t][places[k]] = d.rows[b.r2 + 1 + t][b.start + k]

LongPlaces(d) ==
  [i \in DOMAIN d.rows |->
     IF d.rows[i][1].k \in {"int", "numstr"} /\ d.rows[i][2].k \in {"int", "numstr"}
     THEN PlaceOf(d.rows[i][1].v, d.rows[i][2].v) ELSE 0]

\* C28: a header pair or coordinate list with a row number 16 or a column
\* number 24 is 1-based and is not shifted: every well is found under the
\* identifier of its own row and column numbers, even if a cell holds 0.
C28_OneBasedUntouched ==
  /\ (MatrixLoaded /\ la_res.status = "ok"
        /\ \E k \in 1..WINDOW :
              \/ df.rows[la_res.dbg.r1 + 1][la_res.dbg.start + k].v = NROWS
              \/ df.rows[la_res.dbg.r2 + 1][la_res.dbg.start + k].v = NCOLS)
     => CellsAtPlaces(df, la_res.dbg, HeaderPlaces(df, la_res.dbg, 0), la_res)
  /\ (LongLoaded /\ lo_res.status = "ok"
        /\ \E i \in DOMAIN lf.rows :
              LongPlaces(lf)[i] # 0
                /\ (lf.rows[i][1].v = NROWS \/ lf.rows[i][2].v = NCOLS))
     => \A i \in DOMAIN lf.rows : \A t \in DOMAIN lo_res.data :
           LongPlaces(lf)[i] # 0
              => lo_res.data[t][LongPlaces(lf)[i]] = lf.rows[i][2 + t]

(***************************************************************************)
(* Plate map: properties.                                                  *)
(***************************************************************************)
\* the value cells a grid holds for row number R and column number C
CellsFor(grid, R, C) ==
  {grid.rows[i].vals[j] :
     i \in {i \in DOMAIN grid.rows : HoldsIntIn(grid.rows[i].no, R, R)},
     j \in {j \in DOMAIN grid.labels : HoldsIntIn(grid.labels[j], C, C)}}

TheCellOr(cells, default) == IF cells = {} THEN default ELSE CHOOSE c \in cells : TRUE

\* C8: a plate map that is returned is keyed by exactly the 384 canonical
\* well identifiers; each well holds the Condition of the condition grid
\* and the Concentration of the concentration grid where the grid has a
\* cell for it, and the missing marker where it has none (in particular
\* everywhere when there is no concentration grid).
C8_PlatemapComplete ==
  pm_res.status = "ok" =>
    LET cond == book[SampleSheet(book)].grid
        hasconc == \E i \in DOMAIN book : book[i].conc
    IN /\ DOMAIN pm_res.map = WellUniverse
       /\ Cardinality(DOMAIN pm_res.map) = NROWS * NCOLS
       /\ \A R \in 1..NROWS, C \in 1..NCOLS :
            LET w == <<UpperLetters[R]>> \o StrOfInt(C)
            IN /\ pm_res.map[w].Condition = TheCellOr(CellsFor(cond, R, C), NaN)
               /\ pm_res.map[w].Concentration =
                    IF hasconc
                    THEN TheCellOr(CellsFor(book[ConcSheet(book)].grid, R, C), NaN)
                    ELSE NaN

\* a well that only the concentration grid has keeps its concentration
C8_Witness ==
  /\ pm_res.status = "ok"
  /\ Len(book) = 2
  /\ pm_res.map[<<"B", "2", "4">>] = [Condition |-> NaN, Concentration |-> IntCell(5103)]
  /\ pm_res.map[<<"A", "2">>].Condition = Label(101)
  /\ pm_res.map[<<"A", "2">>].Concentration = NaN
  /\ pm_res.map[<<"P", "1">>] = [Condition |-> NaN, Concentration |-> NaN]

(***************************************************************************)
(* The NPARC engine: properties.                                           *)
(***************************************************************************)
\* the value types the finished call has analysed
Calls ==
  CASE nparc_call = "main" -> {"Raw", "BaselineCorrected"}
    [] nparc_call \in {"Raw", "BaselineCorrected"} -> {nparc_call}
    [] OTHER -> {}

\* the matrix a value type is read from
MatrixOf(vt) == IF vt = "BaselineCorrected" THEN nparc_in.corr ELSE nparc_in.raw

InputGroups == condition_groups(nparc_in.platemap)

FitRowsOf(cond, vt) ==
  SelectSeq(nparc_res.rss_long,
            LAMBDA r : r.Condition = cond /\ r.value_type = vt)

SummariesOf(cond, vt) ==
  SelectSeq(nparc_res.summary,
            LAMBDA s : s.Condition = cond /\ s.value_type = vt)

\* the wells of a group that are columns of a matrix
PresentWells(wells, wide_k) ==
  SelectSeq(wells, LAMBDA w : \E c \in DOMAIN wide_k.columns : wide_k.columns[c] = w)

\* C11: a condition whose wells present in the matrix under test carry
\* fewer than 3 distinct rounded concentrations has no PerTemperatureFit
\* row and no summary row, whatever the platemap lists for its other wells.
C11_EligibilityOnMatrixWells ==
  \A vt \in Calls : \A g \in DOMAIN InputGroups :
    LET present == PresentWells(InputGroups[g].wells, MatrixOf(vt))
    IN DistinctRounded(ConcVals(nparc_in.platemap, present)) < 3
       => /\ FitRowsOf(InputGroups[g].cond, vt) = <<>>
          /\ SummariesOf(InputGroups[g].cond, vt) = <<>>

\* the temperature of row ti of the matrix of a value type, as the rows of
\* rss_long report it
TemperatureOf(vt, ti) == temperatures_from_wide(MatrixOf(vt))[ti]

FitRowsAt(cond, vt, ti) ==
  SelectSeq(FitRowsOf(cond, vt),
            LAMBDA r : r.Temperature_C = TemperatureOf(vt, ti))

\* the pairs left at a temperature are at least 3 and cover at least 2
\* distinct concentrations
EnoughPairs(p) ==
  Len(p.x) >= 3 /\ Cardinality({Round12(p.x[i]) : i \in DOMAIN p.x}) >= 2

TemperatureRowsOf(vt) == DOMAIN MatrixOf(vt).index

\* C12: for an eligible condition, a temperature whose pairs (after
\* dropping those with a missing side) are fewer than 3 or cover fewer than
\* 2 distinct concentrations gets no PerTemperatureFit row; the call still
\* returns, and every other temperature where curve_fit succeeds has its
\* row.
C12_SparseTemperatureSkipped ==
  \A vt \in Calls :
    /\ nparc_res.status = "ok"
    /\ \A g \in DOMAIN InputGroups :
         Eligible(nparc_in.platemap, InputGroups[g].wells)
         => \A ti \in TemperatureRowsOf(vt) :
              LET p == PairsAt(MatrixOf(vt), nparc_in.platemap,
                               InputGroups[g].wells, ti)
                  n == Len(FitRowsAt(InputGroups[g].cond, vt, ti))
              IN IF ~EnoughPairs(p) THEN n = 0
                 ELSE IF nparc_in.curve_fit[vt][ti] # "fail" THEN n = 1
                 ELSE TRUE

\* an eligible condition with a temperature that is skipped and a later
\* one that has its row
C12_Witness ==
  \E vt \in Calls : \E g \in DOMAIN InputGroups :
    /\ Eligible(nparc_in.platemap, InputGroups[g].wells)
    /\ \E t1, t2 \in TemperatureRowsOf(vt) :
         /\ t1 < t2
         /\ ~EnoughPairs(PairsAt(MatrixOf(vt), nparc_in.platemap,
                                InputGroups[g].wells, t1))
         /\ FitRowsAt(InputGroups[g].cond, vt, t1) = <<>>
         /\ Len(FitRowsAt(InputGroups[g].cond, vt, t2)) = 1

\* the signals of the pairs, which the inputs keep whole
SignalInts(p) == [i \in DOMAIN p.y |-> p.y[i].num]

\* C13: RSS_null of a PerTemperatureFit row is the sum of the squared
\* deviations of the retained signals from their mean (n times it is
\* n * sum(y^2) - sum(y)^2), and it is 0 whenever the retained signals are
\* all equal, however the concentrations are spread.
C13_NullModelOptimality ==
  \A vt \in Calls : \A g \in DOMAIN InputGroups : \A ti \in TemperatureRowsOf(vt) :
    LET rows == FitRowsAt(InputGroups[g].cond, vt, ti)
        p == PairsAt(MatrixOf(vt), nparc_in.platemap, InputGroups[g].wells, ti)
        ys == SignalInts(p)
        n == Len(ys)
    IN rows # <<>>
       => /\ RatMul(Num(n), rows[1].RSS_null)
               = Num(n * IntSum([i \in 1..n |-> ys[i] * ys[i]])
                     - IntSum(ys) * IntSum(ys))
          /\ (\A i, j \in 1..n : ys[i] = ys[j]) => rows[1].RSS_null = Num(0)

\* a row fitted over equal signals at three distinct concentrations
C13_Witness ==
  \E vt \in Calls : \E g \in DOMAIN InputGroups : \E ti \in TemperatureRowsOf(vt) :
    LET rows == FitRowsAt(InputGroups[g].cond, vt, ti)
        p == PairsAt(MatrixOf(vt), nparc_in.platemap, InputGroups[g].wells, ti)
    IN /\ rows # <<>>
       /\ \A i, j \in DOMAIN p.y : p.y[i] = p.y[j]
       /\ Cardinality({p.x[i] : i \in DOMAIN p.x}) >= 3
       /\ rows[1].RSS_null = Num(0)

\* the temperatures of a group at which a row is due: enough pairs, and
\* curve_fit succeeds
RowsDue(cond_wells, vt) ==
  IF ~Eligible(nparc_in.platemap, cond_wells) THEN {}
  ELSE {ti \in TemperatureRowsOf(vt) :
          /\ EnoughPairs(PairsAt(MatrixOf(vt), nparc_in.platemap, cond_wells, ti))
          /\ nparc_in.curve_fit[vt][ti] # "fail"}

\* C14: a condition has a summary row if and only if at least 5
\* temperatures produced a PerTemperatureFit row for it; with fewer it has
\* none, and the rows it is due are all in rss_long.
C14_SummaryNeedsFiveTemperatures ==
  \A vt \in Calls : \A g \in DOMAIN InputGroups :
    LET n == Len(FitRowsOf(InputGroups[g].cond, vt))
        s == Len(SummariesOf(InputGroups[g].cond, vt))
    IN /\ s = (IF n >= 5 THEN 1 ELSE 0)
       /\ n = Cardinality(RowsDue(InputGroups[g].wells, vt))

\* a condition with 1 to 4 rows and no summary, next to one that is
\* summarised
C14_Witness ==
  \E vt \in Calls : \E g, h \in DOMAIN InputGroups :
    /\ Len(FitRowsOf(InputGroups[g].cond, vt)) \in 1..4
    /\ SummariesOf(InputGroups[g].cond, vt) = <<>>
    /\ Len(SummariesOf(InputGroups[h].cond, vt)) = 1

\* the alternative model fits a group exactly at every temperature where a
\* row is due, the signals vary with the concentration there, and at least
\* 5 rows are due
StrongDoseResponse(cond_wells, vt) ==
  LET due == RowsDue(cond_wells, vt)
  IN /\ Cardinality(due) >= 5
     /\ \A ti \in due :
          LET p == PairsAt(MatrixOf(vt), nparc_in.platemap, cond_wells, ti)
          IN /\ nparc_in.curve_fit[vt][ti] = "exact"
             /\ \E i, j \in DOMAIN p.y : p.y[i] # p.y[j]

\* C15: for a condition with a strong noiseless dose-response over at
\* least 5 qualifying temperatures, RSS_alt < RSS_null in every one of its
\* rows and the one-sided Mann-Whitney p_value of its summary is below 0.05.
C15_MonotonicEvidence ==
  \A vt \in Calls : \A g \in DOMAIN InputGroups :
    StrongDoseResponse(InputGroups[g].wells, vt)
    => LET rows == FitRowsOf(InputGroups[g].cond, vt)
           s == SummariesOf(InputGroups[g].cond, vt)
       IN /\ Len(rows) >= 5
          /\ \A i \in DOMAIN rows : RatLess(rows[i].RSS_alt, rows[i].RSS_null)
          /\ Len(s) = 1
          /\ RatLess(s[1].p_value, Rat(5, 100))

\* a summarised condition with a strong dose-response
C15_Witness ==
  \E vt \in Calls : \E g \in DOMAIN InputGroups :
    /\ StrongDoseResponse(InputGroups[g].wells, vt)
    /\ Len(SummariesOf(InputGroups[g].cond, vt)) = 1
    /\ SummariesOf(InputGroups[g].cond, vt)[1].U_stat = Num(0)

(***************************************************************************)
(* The BH-FDR block: properties.                                           *)
(***************************************************************************)
\* the corrected summaries of the runs that have finished
CorrectedTables ==
  (IF bh_res.runs >= 1 THEN {bh_res.one} ELSE {})
  \cup (IF bh_res.runs >= 2 THEN {bh_res.two} ELSE {})

ValueTypeSet == {"Raw", "BaselineCorrected"}

AllDefined(rows) == \A i \in DOMAIN rows : IsFinite(rows[i].p_value)

\* the place of row i among the rows with a defined p-value, ascending,
\* equal values in table order
AscendingRank(rows, i) ==
  1 + Cardinality({j \in DOMAIN rows :
        /\ IsFinite(rows[j].p_value)
        /\ \/ RatLess(rows[j].p_value, rows[i].p_value)
           \/ (rows[j].p_value = rows[i].p_value /\ j < i)})

\* the least of a non-empty set of fractions
LeastOf(S) == CHOOSE q \in S : \A r \in S : RatLeq(q, r)

\* min over j >= i of p_j * m / rank_j, over the rows with a defined
\* p-value, m being their number
BenjaminiHochberg(rows, i) ==
  LET defined == {j \in DOMAIN rows : IsFinite(rows[j].p_value)}
      m == Cardinality(defined)
  IN LeastOf({Rat(rows[j].p_value.num * m,
                  rows[j].p_value.den * AscendingRank(rows, j)) :
              j \in {k \in defined :
                       AscendingRank(rows, k) >= AscendingRank(rows, i)}})

\* C16: in a value_type group whose p-values are all defined, p_adj_BH of
\* the i-th smallest is the minimum over j >= i of p_j * m / rank_j; the
\* adjusted values are non-decreasing in the p-value and none is below its
\* own p-value.
C16_BenjaminiHochberg ==
  \A T \in CorrectedTables : \A vt \in ValueTypeSet :
    LET rows == GroupRows(T, vt)
    IN AllDefined(rows)
       => \A i \in DOMAIN rows :
            /\ rows[i].p_adj_BH = BenjaminiHochberg(rows, i)
            /\ RatLeq(rows[i].p_value, rows[i].p_adj_BH)
            /\ \A k \in DOMAIN rows :
                 RatLeq(rows[i].p_value, rows[k].p_value)
                 => RatLeq(rows[i].p_adj_BH, rows[k].p_adj_BH)

\* a group of three defined p-values in which the running minimum lowers
\* an adjusted value below p * m / rank
C16_Witness ==
  \E T \in CorrectedTables : \E vt \in ValueTypeSet :
    LET rows == GroupRows(T, vt)
    IN /\ Len(rows) = 3
       /\ AllDefined(rows)
       /\ \E i \in DOMAIN rows :
            RatLess(rows[i].p_adj_BH,
                    Rat(rows[i].p_value.num * 3,
                        rows[i].p_value.den * AscendingRank(rows, i)))

\* C17: a condition with an undefined p_value gets an undefined p_adj_BH,
\* and the conditions with defined p-values get the adjusted values they
\* would get if the undefined ones were absent.
C17_UndefinedTakesNoPart ==
  \A T \in CorrectedTables : \A vt \in ValueTypeSet :
    LET rows == GroupRows(T, vt)
    IN \A i \in DOMAIN rows :
         IF IsFinite(rows[i].p_value)
         THEN rows[i].p_adj_BH = BenjaminiHochberg(rows, i)
         ELSE rows[i].p_adj_BH = NanF

\* the largest of a non-empty set of fractions
GreatestOf(S) == CHOOSE q \in S : \A r \in S : RatLeq(r, q)

\* the place of row i in the ascending order when equal values are taken
\* in the opposite of the table order
AscendingRankTiesReversed(rows, i) ==
  1 + Cardinality({j \in DOMAIN rows :
        \/ RatLess(rows[j].p_value, rows[i].p_value)
        \/ (rows[j].p_value = rows[i].p_value /\ j > i)})

\* min over j >= i of p_j * m / rank_j in that order
BenjaminiHochbergTiesReversed(rows, i) ==
  LeastOf({Rat(rows[j].p_value.num * Len(rows),
               rows[j].p_value.den * AscendingRankTiesReversed(rows, j)) :
           j \in {k \in DOMAIN rows :
                    AscendingRankTiesReversed(rows, k)
                      >= AscendingRankTiesReversed(rows, i)}})

\* C30: in a value_type group whose p-values are all defined, no p_adj_BH
\* is above the largest p-value of the group, hence none is above 1;
\* conditions with equal p-values get equal p_adj_BH, and the values are
\* those of the procedure with the equal p-values sorted the other way.
C30_AdjustedBounded ==
  \A T \in CorrectedTables : \A vt \in ValueTypeSet :
    LET rows == GroupRows(T, vt)
    IN (rows # <<>> /\ AllDefined(rows))
       => \A i \in DOMAIN rows :
            /\ RatLeq(rows[i].p_adj_BH,
                      GreatestOf({rows[j].p_value : j \in DOMAIN rows}))
            /\ RatLeq(rows[i].p_adj_BH, Num(1))
            /\ rows[i].p_adj_BH = BenjaminiHochbergTiesReversed(rows, i)
            /\ \A j \in DOMAIN rows :
                 rows[i].p_value = rows[j].p_value
                 => rows[i].p_adj_BH = rows[j].p_adj_BH

\* a group of three with the two largest p-values equal: both get the
\* largest p-value, although p * m / rank of the first is above it
C30_Witness ==
  \E T \in CorrectedTables : \E vt \in ValueTypeSet :
    LET rows == GroupRows(T, vt)
    IN /\ Len(rows) = 3 /\ AllDefined(rows)
       /\ \E i, j \in DOMAIN rows :
            /\ i < j
            /\ rows[i].p_value = rows[j].p_value
            /\ rows[i].p_value = GreatestOf({rows[k].p_value : k \in DOMAIN rows})
            /\ rows[i].p_adj_BH = rows[i].p_value
            /\ rows[j].p_adj_BH = rows[i].p_value
       /\ \E l \in DOMAIN rows : RatLess(rows[l].p_value, rows[l].p_adj_BH)

\* the value type the second run leaves alone
KeptType == IF bh_in.alt_of = "Raw" THEN "BaselineCorrected" ELSE "Raw"

\* C18: the adjusted p-values of one value type depend on the p-values of
\* that value type only: when a second run changes the p-values or the
\* number of conditions of the other value type, the rows of the first
\* come out the same.
C18_ValueTypesIndependent ==
  bh_res.runs = 2 => GroupRows(bh_res.one, KeptType) = GroupRows(bh_res.two, KeptType)

\* two runs that differ in one value type, the other having three rows
\* with adjusted values
C18_Witness ==
  /\ bh_res.runs = 2
  /\ GroupRows(bh_res.one, bh_in.alt_of) # GroupRows(bh_res.two, bh_in.alt_of)
  /\ Len(GroupRows(bh_res.two, bh_in.alt_of)) # Len(GroupRows(bh_res.one, bh_in.alt_of))
  /\ \E i \in DOMAIN GroupRows(bh_res.two, bh_in.alt_of) :
       IsFinite(GroupRows(bh_res.two, bh_in.alt_of)[i].p_adj_BH)
  /\ Len(GroupRows(bh_res.one, KeptType)) >= 2
  /\ \A i \in DOMAIN GroupRows(bh_res.one, KeptType) :
       IsFinite(GroupRows(bh_res.one, KeptType)[i].p_adj_BH)

\* the residual sums of a sequence of rows
ResidualsOf(rows) ==
  [null |-> [i \in DOMAIN rows |-> rows[i].RSS_null],
   alt |-> [i \in DOMAIN rows |-> rows[i].RSS_alt]]

\* C25: a (condition, temperature) has a PerTemperatureFit row exactly when
\* both residual sums are defined, and every row carries both; where
\* curve_fit fails there is no row, the call still returns, and the
\* summary of the condition (n_temperatures, U statistic, medians) is
\* computed from the rows alone.
C25_FailedFitLeavesNoRow ==
  \A vt \in Calls :
    /\ nparc_res.status = "ok"
    /\ \A i \in DOMAIN nparc_res.rss_long :
         IsFinite(nparc_res.rss_long[i].RSS_null)
           /\ IsFinite(nparc_res.rss_long[i].RSS_alt)
    /\ \A g \in DOMAIN InputGroups :
         LET cond == InputGroups[g].cond
             rows == FitRowsOf(cond, vt)
             res == ResidualsOf(rows)
             sums == SummariesOf(cond, vt)
         IN /\ \A ti \in TemperatureRowsOf(vt) :
                 Len(FitRowsAt(cond, vt, ti))
                   = (IF ti \in RowsDue(InputGroups[g].wells, vt) THEN 1 ELSE 0)
            /\ \A k \in DOMAIN sums :
                 /\ sums[k].n_temperatures
                      = Cardinality(RowsDue(InputGroups[g].wells, vt))
                 /\ sums[k].U_stat = mannwhitneyu(res.alt, res.null).U
                 /\ sums[k].median_RSS_null = nanmedian(res.null)
                 /\ sums[k].median_RSS_alt = nanmedian(res.alt)

\* a condition with enough pairs at every temperature, one temperature at
\* which curve_fit fails and a summary over the other five or more
C25_Witness ==
  \E vt \in Calls : \E g \in DOMAIN InputGroups :
    LET cond == InputGroups[g].cond
        wells == InputGroups[g].wells
    IN /\ Eligible(nparc_in.platemap, wells)
       /\ \A ti \in TemperatureRowsOf(vt) :
            EnoughPairs(PairsAt(MatrixOf(vt), nparc_in.platemap, wells, ti))
       /\ nparc_in.curve_fit[vt][1] = "fail"
       /\ FitRowsAt(cond, vt, 1) = <<>>
       /\ Len(SummariesOf(cond, vt)) = 1
       /\ SummariesOf(cond, vt)[1].n_temperatures
            = Len(MatrixOf(vt).index) - 1

\* C26: every summary row agrees with the PerTemperatureFit rows of its
\* condition and value type: n_temperatures is their number and at least
\* 5, frac_alt_better is the share of them with RSS_alt strictly below
\* RSS_null, and no condition has two summary rows of one value type.
C26_SummaryConsistent ==
  /\ \A k \in DOMAIN nparc_res.summary :
       LET s == nparc_res.summary[k]
           rows == FitRowsOf(s.Condition, s.value_type)
           better == {i \in DOMAIN rows : RatLess(rows[i].RSS_alt, rows[i].RSS_null)}
       IN /\ s.n_temperatures = Len(rows)
          /\ s.n_temperatures >= 5
          /\ s.frac_alt_better.num * s.n_temperatures
               = Cardinality(better) * s.frac_alt_better.den
          /\ RatLeq(Num(0), s.frac_alt_better)
          /\ RatLeq(s.frac_alt_better, Num(1))
  /\ \A k, l \in DOMAIN nparc_res.summary :
       (/\ nparc_res.summary[k].Condition = nparc_res.summary[l].Condition
        /\ nparc_res.summary[k].value_type = nparc_res.summary[l].value_type)
       => k = l

\* summaries of both value types of two conditions, one with the
\* alternative better at some temperatures only, one with the two fits
\* equal at some temperatures
C26_Witness ==
  /\ nparc_call = "main"
  /\ Len(nparc_res.summary) = 4
  /\ \E k \in DOMAIN nparc_res.summary :
       /\ RatLess(Num(0), nparc_res.summary[k].frac_alt_better)
       /\ RatLess(nparc_res.summary[k].frac_alt_better, Num(1))
  /\ \E i \in DOMAIN nparc_res.rss_long :
       /\ nparc_res.rss_long[i].RSS_alt = nparc_res.rss_long[i].RSS_null
       /\ Len(SummariesOf(nparc_res.rss_long[i].Condition,
                          nparc_res.rss_long[i].value_type)) = 1

\* the platemap without the wells of the other conditions
PlatemapOnly(cond) ==
  [nparc_in.platemap EXCEPT
     !.rows = SelectSeq(nparc_in.platemap.rows,
                        LAMBDA row : ~row.Condition.na /\ row.Condition.text = cond)]

Reversed(s) == [i \in DOMAIN s |-> s[Len(s) + 1 - i]]

\* the matrix with its temperature rows in the opposite order
MatrixReversed(w) ==
  [index |-> Reversed(w.index), columns |-> w.columns, data |-> Reversed(w.data)]

\* what curve_fit does, in the opposite order of the temperature rows
FitReversed(fits, n) ==
  [ti \in DOMAIN fits |-> IF ti <= n THEN fits[n + 1 - ti] ELSE fits[ti]]

\* the summary fields that are computed before the correction
Unadjusted(sums) == [k \in DOMAIN sums |-> [sums[k] EXCEPT !.p_adj_BH = NanF]]

\* the tables of a condition in a run of its own
AloneRun(cond, vt) ==
  run_nparc_external(nparc_in.raw, nparc_in.corr, PlatemapOnly(cond), vt,
                     nparc_in.curve_fit)

\* the tables of the conditions processed last to first over temperature
\* rows in the opposite order
ReversedRun(vt) ==
  ConditionLoop(MatrixReversed(MatrixOf(vt)), nparc_in.platemap,
                Reversed(InputGroups), 1,
                temperatures_from_wide(MatrixReversed(MatrixOf(vt))), vt,
                FitReversed(nparc_in.curve_fit[vt], Len(MatrixOf(vt).index)))

RowsOfIn(table, cond) == SelectSeq(table, LAMBDA r : r.Condition = cond)

\* C27: the PerTemperatureFit rows and the summary fields other than
\* p_adj_BH of a condition are those of a run in which the other
\* conditions are absent, and those of a run that takes the conditions
\* and the temperatures in the opposite order (the rows then in the
\* opposite order).
C27_ConditionsIndependent ==
  \A vt \in Calls : \A g \in DOMAIN InputGroups :
    LET cond == InputGroups[g].cond
    IN /\ FitRowsOf(cond, vt) = AloneRun(cond, vt).rss_long
       /\ Unadjusted(SummariesOf(cond, vt)) = Unadjusted(AloneRun(cond, vt).summary)
       /\ FitRowsOf(cond, vt) = Reversed(RowsOfIn(ReversedRun(vt).rows, cond))
       /\ Unadjusted(SummariesOf(cond, vt)) = RowsOfIn(ReversedRun(vt).summaries, cond)

\* two summarised conditions, one of which gets another p_adj_BH than in
\* a run of its own
C27_Witness ==
  \E vt \in Calls : \E g \in DOMAIN InputGroups :
    LET cond == InputGroups[g].cond
    IN /\ Len(InputGroups) = 2
       /\ Len(SummariesOf(cond, vt)) = 1
       /\ Len(nparc_res.rss_long) > Len(FitRowsOf(cond, vt))
       /\ IsFinite(SummariesOf(cond, vt)[1].p_adj_BH)
       /\ SummariesOf(cond, vt)[1].p_adj_BH # AloneRun(cond, vt).summary[1].p_adj_BH

\* the platemap rows that carry a label, and the distinct rounded
\* concentrations they list
LabelledRows(cond) ==
  SelectSeq(nparc_in.platemap.rows,
            LAMBDA row : ~row.Condition.na /\ row.Condition.text = cond)

ListedConcentrations(cond) ==
  {Round12(LabelledRows(cond)[i].Concentration) :
     i \in {j \in DOMAIN LabelledRows(cond) :
              IsFinite(LabelledRows(cond)[j].Concentration)}}

IsBlank(label) == label.na \/ StrStrip(label.text) = <<>>

ReportedConditions ==
  {nparc_res.rss_long[i].Condition : i \in DOMAIN nparc_res.rss_long}
  \cup {nparc_res.summary[i].Condition : i \in DOMAIN nparc_res.summary}

\* C19: wells whose Condition is missing, empty or whitespace belong to no
\* group, and every condition of a PerTemperatureFit or summary row has a
\* non-blank label and at least 3 distinct rounded concentrations.
C19_OnlyLabelledEligibleConditions ==
  nparc_call # "none"
  => /\ \A g \in DOMAIN InputGroups : \A w \in Range(InputGroups[g].wells) :
          \A r \in DOMAIN nparc_in.platemap.rows :
            nparc_in.platemap.rows[r].well = w
            => ~IsBlank(nparc_in.platemap.rows[r].Condition)
     /\ \A cond \in ReportedConditions :
          /\ StrStrip(cond) # <<>>
          /\ Cardinality(ListedConcentrations(cond)) >= 3

\* a finished call on a platemap with blank-labelled wells that list 3
\* concentrations, next to a labelled condition that is reported
C19_Witness ==
  /\ nparc_call # "none"
  /\ \E r1, r2, r3 \in DOMAIN nparc_in.platemap.rows :
       /\ IsBlank(nparc_in.platemap.rows[r1].Condition)
       /\ nparc_in.platemap.rows[r1].Condition = nparc_in.platemap.rows[r2].Condition
       /\ nparc_in.platemap.rows[r1].Condition = nparc_in.platemap.rows[r3].Condition
       /\ Cardinality({nparc_in.platemap.rows[r].Concentration : r \in {r1, r2, r3}}) = 3
  /\ ReportedConditions # {}

(***************************************************************************)
(* Layout auto-detection: the failures that reach the caller.              *)
(***************************************************************************)
\* C20: whatever the grid, load_plate_matrix_auto either returns a matrix
\* over the 384 wells with its debug record or fails with the
\* layout-not-detected error; no other failure reaches the caller.
C20_DetectionTotal ==
  MatrixLoaded
  => \/ la_res.status = "LayoutNotDetected"
     \/ /\ la_res.status = "ok"
        /\ la_res.dbg.found
        /\ la_res.columns = all_well_ids_384

\* C29 as claimed: U_stat and p_value follow the pairing of RSS_null with
\* RSS_alt as frac_alt_better does: whenever pairing the same RSS_null
\* values with other temperatures changes frac_alt_better, it changes
\* U_stat or p_value too.
C29_PairingMatters ==
  (mw_res.runs = 2
     /\ mw_res.one[1].frac_alt_better # mw_res.two[1].frac_alt_better)
  => \/ mw_res.one[1].U_stat # mw_res.two[1].U_stat
     \/ mw_res.one[1].p_value # mw_res.two[1].p_value

\* C29 as amended: U_stat and p_value depend only on the two collections
\* of values, not on which RSS_null is paired with which RSS_alt: pairing
\* the same RSS_null values with other temperatures leaves U_stat, p_value
\* and the medians as they were; only frac_alt_better can change.
C29_PairingIgnored ==
  mw_res.runs = 2
  => /\ mw_res.one[1].U_stat = mw_res.two[1].U_stat
     /\ mw_res.one[1].p_value = mw_res.two[1].p_value
     /\ mw_res.one[1].median_RSS_null = mw_res.two[1].median_RSS_null
     /\ mw_res.one[1].median_RSS_alt = mw_res.two[1].median_RSS_alt
     /\ mw_res.one[1].n_temperatures = mw_res.two[1].n_temperatures

\* a re-pairing that changes frac_alt_better while U_stat and a p_value
\* strictly between 0 and 1 stay
C29_Witness ==
  /\ mw_res.runs = 2
  /\ mw_res.one[1].frac_alt_better # mw_res.two[1].frac_alt_better
  /\ mw_res.one[1].U_stat = mw_res.two[1].U_stat
  /\ RatLess(Num(0), mw_res.two[1].p_value)
  /\ RatLess(mw_res.two[1].p_value, Num(1))

====
